---- MODULE Spec2Model ----
(***************************************************************************)
(* Data collection and caching pipeline of the pNode dashboard:            *)
(*   proxy-server/lib/dataCollector.js  (collector, hot cache, scheduler)  *)
(*   proxy-server/lib/mongodb.js        (snapshot store)                   *)
(*   app/api/prpc/route.ts              (RPC proxy used by the dashboard)  *)
(*   app/topology/page.tsx, NodesProvider (dashboard node probes)          *)
(***************************************************************************)
EXTENDS Integers, Sequences, FiniteSets, TLC

(***************************************************************************)
(* JavaScript values.  A number is a reduced fraction <<n, d>> with d > 0;  *)
(* NaN is <<0, 0>> and Infinity is <<1, 0>>.  Null stands for both null     *)
(* and undefined (the code only ever tests them with ?. and ||).  A string  *)
(* field that may be null holds NullStr for null.                           *)
(***************************************************************************)
Null == <<>>
NaN == <<0, 0>>
Infinity == <<1, 0>>
NullStr == ""

RECURSIVE GCD(_, _)
GCD(a, b) == IF b = 0 THEN a ELSE GCD(b, a % b)

Frac(n, d) == LET g == GCD(n, d) IN IF n = 0 THEN <<0, 1>> ELSE <<n \div g, d \div g>>

Num(n) == <<n, 1>>

IsZero(x) == x = <<0, 1>>

\* JS truthiness of a number-or-null value: null, undefined, 0 and NaN are falsy.
Truthy(x) == x # Null /\ x # NaN /\ ~IsZero(x)

\* x || y
OrElse(x, y) == IF Truthy(x) THEN x ELSE y

\* ToNumber for the operands of an arithmetic operator: undefined becomes NaN.
ToNumber(x) == IF x = Null THEN NaN ELSE x

\* a + b on numbers
JsAdd(a, b) ==
    IF a = NaN \/ b = NaN THEN NaN
    ELSE IF a = Infinity \/ b = Infinity THEN Infinity
    ELSE Frac(a[1] * b[2] + b[1] * a[2], a[2] * b[2])

\* a * b on numbers
JsMul(a, b) ==
    IF a = NaN \/ b = NaN THEN NaN
    ELSE IF a = Infinity \/ b = Infinity
         THEN (IF IsZero(a) \/ IsZero(b) THEN NaN ELSE Infinity)
    ELSE Frac(a[1] * b[1], a[2] * b[2])

\* a / b on non-negative numbers (IEEE: x/0 = Infinity, 0/0 = NaN)
JsDiv(x, y) ==
    LET a == ToNumber(x)
        b == ToNumber(y)
    IN  IF a = NaN \/ b = NaN THEN NaN
        ELSE IF a = Infinity THEN (IF b = Infinity THEN NaN ELSE Infinity)
        ELSE IF b = Infinity THEN Num(0)
        ELSE IF IsZero(b) THEN (IF IsZero(a) THEN NaN ELSE Infinity)
        ELSE Frac(a[1] * b[2], a[2] * b[1])

IsFinite(x) == x # Null /\ x[2] # 0

(***************************************************************************)
(* What a remote node does with one RPC call.                              *)
(*   kind "neterr"  : connection refused / reset                           *)
(*   kind "timeout" : no answer within the deadline                        *)
(*   kind "reply"   : an HTTP response with a status and a body            *)
(* A body is either not JSON (json = FALSE) or a JSON object that may      *)
(* carry a truthy "error" member and may carry a "result" member.          *)
(***************************************************************************)
NoBody == [json |-> FALSE, error |-> FALSE, result |-> Null]

NetErr == [kind |-> "neterr", status |-> 0, body |-> NoBody]

Timeout == [kind |-> "timeout", status |-> 0, body |-> NoBody]

Reply(status, body) == [kind |-> "reply", status |-> status, body |-> body]

JsonBody(error, result) == [json |-> TRUE, error |-> error, result |-> result]

\* a call that has not settled yet
Pending == [kind |-> "pending", status |-> 0, body |-> NoBody]

\* The transport-level failures of one call: nothing usable came back.
CallFailed(reply) ==
    \/ reply.kind # "reply"
    \/ ~reply.body.json
    \/ reply.body.error
    \/ reply.body.result = Null

(***************************************************************************)
(* dataCollector.js: one of the three calls of fetchNodeStats,             *)
(*   fetch(endpoint, {...}).then(r => r.json()).catch(() => null)          *)
(* node-fetch rejects on a connection error or timeout, r.json() rejects   *)
(* on a non-JSON body; the HTTP status is not looked at.                   *)
(***************************************************************************)
NullRes == [isNull |-> TRUE, result |-> Null]

collectorCall(reply) ==
    IF reply.kind # "reply" \/ ~reply.body.json
    THEN NullRes
    ELSE [isNull |-> FALSE, result |-> reply.body.result]

\* res?.result
ResultOf(res) == IF res.isNull THEN Null ELSE res.result

\* res?.result?.field
Field(res, f) == IF ResultOf(res) = Null THEN Null ELSE ResultOf(res)[f]

\* res?.result?.version || null  (a string member)
StrField(res, f) == IF ResultOf(res) = Null THEN NullStr ELSE ResultOf(res)[f]

(***************************************************************************)
(* dataCollector.js fetchNodeStats, lines 80-93: the NodeStats built from  *)
(* the three settled calls.  The catch branch of line 94 is not reachable  *)
(* from inside the try: every call carries its own .catch.                 *)
(***************************************************************************)
isOnline(versionRes, statsRes) == ResultOf(versionRes) # Null \/ ResultOf(statsRes) # Null

fetchNodeStats(versionRes, statsRes, podsRes) ==
    [status |-> IF isOnline(versionRes, statsRes) THEN "online" ELSE "offline",
     version |-> StrField(versionRes, "version"),
     cpu |-> OrElse(Field(statsRes, "cpu_percent"), Null),
     ram |-> IF ResultOf(statsRes) # Null
             THEN JsMul(JsDiv(Field(statsRes, "ram_used"), Field(statsRes, "ram_total")), Num(100))
             ELSE Null,
     storage |-> OrElse(Field(statsRes, "file_size"), Null),
     uptime |-> OrElse(Field(statsRes, "uptime"), Null),
     activeStreams |-> OrElse(Field(statsRes, "active_streams"), Null),
     packetsReceived |-> OrElse(Field(statsRes, "packets_received"), Null),
     packetsSent |-> OrElse(Field(statsRes, "packets_sent"), Null),
     peersCount |-> OrElse(Field(podsRes, "total_count"), Null)]

(***************************************************************************)
(* app/api/prpc/route.ts: the plain-http transport and the POST handler,   *)
(* as the dashboard reaches a node (endpoint http://<ip>:6000/rpc).        *)
(***************************************************************************)
\* makeHttpRequest, http branch (lines 167-207): { data } or { error }
makeHttpRequest(reply) ==
    IF reply.kind = "neterr" THEN [error |-> "Request error", data |-> NoBody]
    ELSE IF reply.kind = "timeout" THEN [error |-> "Request timeout", data |-> NoBody]
    ELSE IF ~reply.body.json THEN [error |-> "Invalid JSON response", data |-> NoBody]
    ELSE [error |-> NullStr, data |-> reply.body]

\* POST, lines 243-250: a transport error is answered 200 with an error member
POST(reply) ==
    LET result == makeHttpRequest(reply)
    IN  IF result.error # NullStr
        THEN [status |-> 200, body |-> JsonBody(TRUE, Null)]
        ELSE [status |-> 200, body |-> result.data]

(***************************************************************************)
(* Dashboard callApi (topology/page.tsx 160-183, NodesProvider 388-402):   *)
(* { error } when the proxy answers non-2xx or its JSON carries an error,  *)
(* { result: data.result } otherwise.                                      *)
(***************************************************************************)
callApi(reply) ==
    LET response == POST(reply)
    IN  IF response.status < 200 \/ response.status > 299
        THEN [error |-> TRUE, result |-> Null]
        ELSE IF response.body.error THEN [error |-> TRUE, result |-> Null]
        ELSE [error |-> FALSE, result |-> response.body.result]

\* topology/page.tsx fetchNodeDataAndUpdate, lines 260-282
topologyFetchNodeData(versionRes, statsRes, podsRes) ==
    LET isOffline == versionRes.error /\ statsRes.error
    IN  [status |-> IF isOffline THEN "offline" ELSE "online",
         version |-> versionRes.result,
         stats |-> statsRes.result,
         pods |-> podsRes.result]

\* NodesProvider fetchNodeDataAndUpdate, lines 452-479 (two calls only)
providerFetchNodeData(versionRes, statsRes) ==
    IF versionRes.error /\ statsRes.error
    THEN [status |-> "offline", version |-> Null, stats |-> Null]
    ELSE [status |-> "online", version |-> versionRes.result, stats |-> statsRes.result]

(***************************************************************************)
(* Input domains                                                           *)
(***************************************************************************)
Methods == {"get-version", "get-stats", "get-pods"}

VersionPayloads == {[version |-> "0.8.0"], [version |-> "0.7.3"]}

Stats(cpu, used, total, size, streams) ==
    [cpu_percent |-> cpu, ram_used |-> used, ram_total |-> total, file_size |-> size,
     uptime |-> Num(3600), active_streams |-> streams,
     packets_received |-> Num(7), packets_sent |-> Num(5)]

StatsPayloads ==
    {Stats(Num(10), Num(1), Num(4), Num(100), Num(2)),
     Stats(Num(25), Num(2), Num(4), Num(0), Num(0)),
     Stats(Num(0), Num(3), Num(0), Num(50), Num(1)),
     Stats(Num(40), Null, Null, Null, Null)}

PodsPayloads == {[total_count |-> Num(3)]}

Payloads(m) ==
    IF m = "get-version" THEN VersionPayloads
    ELSE IF m = "get-stats" THEN StatsPayloads
    ELSE PodsPayloads

Statuses == {200, 500}

\* Everything a node may do with a call of method m.
Replies(m) ==
    {NetErr, Timeout}
    \cup {Reply(s, NoBody) : s \in Statuses}
    \cup {Reply(s, JsonBody(TRUE, Null)) : s \in Statuses}
    \cup {Reply(s, JsonBody(FALSE, Null)) : s \in Statuses}
    \cup {Reply(200, JsonBody(FALSE, p)) : p \in Payloads(m)}

(***************************************************************************)
(* State                                                                   *)
(***************************************************************************)
VARIABLES
    probe,              \* one node probe followed call by call (its three RPC calls)
    timerPending,       \* startCollector: the 5 s setTimeout has not fired yet
    runs,               \* the invocations of collectAllNetworks, by slot
    latestData,         \* dataCollector.js: the in-memory cache, per network
    db,                 \* mongodb.js: db is connected (non-null)
    network_snapshots,  \* the rows of collection network_snapshots, in insertion order
    node_history,       \* the rows of collection node_history, in insertion order
    now,                \* the clock read by new Date()
    orphanProbes,       \* probes still in flight whose collectNetworkData has thrown
    lastRead,           \* what the last getLatestData(network) returned
    request,            \* route.ts: the POST handler and its outbound call
    sample,             \* a registry answer and the pods collectNetworkData samples of it
    bot,                \* telegram bot: bot is initialised (non-null)
    subscribers,        \* telegram bot: chatId -> set of pubkeys
    nodeAlertHistory,   \* telegram bot: pubkey -> last status
    alertLog,           \* the last checkNodeAlerts: its input and the messages it sent
    lastQuery,          \* what the last query of the store returned
    pods_snapshots,     \* the rows of collection pods_snapshots
    podCredits,         \* telegram bot: the pod credits cache and the calls of fetchPodCredits
    cronStopped,        \* stop() was called on the cron job of startCollector
    provider            \* NodesProvider: the selected network and its registry state

proxyVars == <<request>>

sampleVars == <<sample>>

alertVars == <<bot, subscribers, nodeAlertHistory, alertLog>>

queryVars == <<lastQuery>>

lateVars == <<pods_snapshots, podCredits, cronStopped, provider>>

\* the state outside the collector and the node probe
sideVars == <<proxyVars, sampleVars, alertVars, queryVars, lateVars>>

vars == <<probe, timerPending, runs, latestData, db, network_snapshots, node_history,
          now, orphanProbes, lastRead, sideVars>>

collectorVars == <<timerPending, runs, latestData, db, network_snapshots, node_history,
                   now, orphanProbes, lastRead>>

(***************************************************************************)
(* app/api/prpc/route.ts: the transport behind the RPC proxy.  An endpoint *)
(* is "bad" (new URL throws), "http" or "https".  Times are in seconds.    *)
(***************************************************************************)
\* line 177: timeout: 5000, the idle timeout of the socket of http.request
HttpTimeout == 5

\* line 115: setTimeout(() => controller.abort(), 10000)
FetchTimeout == 10

\* how far the clock of one call is followed
MaxElapsed == 12

\* a page of the anti-bot interstitial, and a JSON body that holds a marker
ChallengePage == [json |-> FALSE, error |-> FALSE, result |-> Null, marker |-> TRUE]

ChallengeJson == [json |-> TRUE, error |-> FALSE, result |-> Null, marker |-> TRUE]

\* line 132: text.includes("Just a moment") || text.includes("cf_chl_opt") || ...
HasMarker(body) == "marker" \in DOMAIN body

\* makeFetchRequest, lines 113-147, once the fetch has ended with reply
makeFetchRequest(reply) ==
    IF reply.kind = "timeout" THEN [error |-> "Request timeout", data |-> NoBody]
    ELSE IF reply.kind # "reply" THEN [error |-> "Fetch error", data |-> NoBody]
    ELSE IF HasMarker(reply.body)
         THEN [error |-> "Cloudflare challenge detected", data |-> NoBody]
    ELSE IF ~reply.body.json THEN [error |-> "Invalid JSON response", data |-> NoBody]
    ELSE [error |-> NullStr, data |-> reply.body]

\* makeHttpRequest, lines 156-165 and 208-210: URL parsing and the choice of path
Transport(endpoint, reply) ==
    IF endpoint = "bad" THEN [error |-> "Error", data |-> NoBody]
    ELSE IF endpoint = "https" THEN makeFetchRequest(reply)
    ELSE makeHttpRequest(reply)

\* POST, lines 245-250: the answer built from the transport's result
Answer(result) ==
    IF result.error # NullStr
    THEN [status |-> 200, body |-> JsonBody(TRUE, Null)]
    ELSE [status |-> 200, body |-> result.data]

NoResult == [error |-> NullStr, data |-> NoBody]

NoResponse == [status |-> 0, body |-> NoBody]

\* the body of a request to the proxy: not JSON, the JSON value null, or a
\* JSON value with or without its endpoint and method members
RequestBody(json, isNull, endpoint, method) ==
    [json |-> json, isNull |-> isNull, endpoint |-> endpoint, method |-> method]

RequestBodies ==
    {RequestBody(FALSE, FALSE, NullStr, NullStr), RequestBody(TRUE, TRUE, NullStr, NullStr)}
    \cup {RequestBody(TRUE, FALSE, e, m) :
            e \in {NullStr, "bad", "http", "https"}, m \in {NullStr, "get-version"}}

IdleRequest ==
    [pc |-> "idle",             \* idle | calling | answered
     body |-> RequestBody(FALSE, FALSE, NullStr, NullStr),
     called |-> FALSE,          \* makeHttpRequest was called for this request
     stage |-> "none",          \* none | connect | body | aborted
     timer |-> FALSE,           \* the timeout of the call is armed
     elapsed |-> 0,             \* time since the call was issued
     idle |-> 0,                \* time since the socket last saw activity
     remote |-> Pending,        \* what the remote did with the call, once it ended
     status |-> 0,              \* status of the response headers
     result |-> NoResult,       \* what the transport resolved with
     response |-> NoResponse]   \* the answer of the POST handler

\* the call has ended with reply: the transport resolves, POST answers
Settle(req, reply) ==
    LET result == Transport(req.body.endpoint, reply)
    IN  [req EXCEPT !.pc = "answered", !.stage = "none", !.timer = FALSE,
                    !.remote = reply, !.result = result, !.response = Answer(result)]

\* POST, lines 215-243: a request arrives
PostReceive(body) ==
    /\ request.pc \in {"idle", "answered"}
    /\ LET req == [IdleRequest EXCEPT !.body = body]
       IN  request' =
             IF ~body.json
             THEN [req EXCEPT !.pc = "answered",
                              !.response = [status |-> 400, body |-> JsonBody(TRUE, Null)]]
             ELSE IF body.isNull
             THEN \* line 227: destructuring null throws, caught at line 251
                  [req EXCEPT !.pc = "answered",
                              !.response = [status |-> 500, body |-> JsonBody(TRUE, Null)]]
             ELSE IF body.endpoint = NullStr \/ body.method = NullStr
             THEN [req EXCEPT !.pc = "answered",
                              !.response = [status |-> 400, body |-> JsonBody(TRUE, Null)]]
             ELSE IF body.endpoint = "bad"
             THEN Settle([req EXCEPT !.called = TRUE], NetErr)
             ELSE [req EXCEPT !.pc = "calling", !.called = TRUE, !.stage = "connect",
                              !.timer = TRUE]
    /\ UNCHANGED <<probe, collectorVars, sampleVars, alertVars, queryVars, lateVars>>

\* the connection fails: req 'error' (line 197), or fetch rejects (line 142)
RemoteRefuse ==
    /\ request.pc = "calling" /\ request.stage = "connect"
    /\ request' = Settle(request, NetErr)
    /\ UNCHANGED <<probe, collectorVars, sampleVars, alertVars, queryVars, lateVars>>

\* the response headers arrive: the callback of line 180 runs, or fetch
\* resolves and line 127 clears the abort timer
RemoteHeaders(status) ==
    /\ request.pc = "calling" /\ request.stage = "connect"
    /\ request' = [request EXCEPT !.stage = "body", !.status = status, !.idle = 0,
                                  !.timer = (request.body.endpoint = "http")]
    /\ UNCHANGED <<probe, collectorVars, sampleVars, alertVars, queryVars, lateVars>>

\* a part of the body arrives (res 'data', line 183): the socket is not idle
RemoteData ==
    /\ request.pc = "calling" /\ request.stage = "body"
    /\ request.body.endpoint = "http" /\ request.idle > 0
    /\ request' = [request EXCEPT !.idle = 0]
    /\ UNCHANGED <<probe, collectorVars, sampleVars, alertVars, queryVars, lateVars>>

\* the body is complete: res 'end' (line 187), or response.text() resolves
RemoteBody(body) ==
    /\ request.pc = "calling" /\ request.stage = "body"
    /\ request' = Settle(request, Reply(request.status, body))
    /\ UNCHANGED <<probe, collectorVars, sampleVars, alertVars, queryVars, lateVars>>

\* the remote closes the connection before the body is complete: on the http
\* path res emits 'aborted' and 'close', for which no listener is registered
\* (lines 183-204 listen to res 'data', res 'end', req 'error', req 'timeout');
\* on the https path response.text() rejects into the catch of line 142
RemoteAbort ==
    /\ request.pc = "calling" /\ request.stage = "body"
    /\ request' = IF request.body.endpoint = "http"
                  THEN [request EXCEPT !.stage = "aborted", !.timer = FALSE]
                  ELSE Settle(request, NetErr)
    /\ UNCHANGED <<probe, collectorVars, sampleVars, alertVars, queryVars, lateVars>>

TimerDue ==
    /\ request.timer
    /\ IF request.body.endpoint = "https" THEN request.elapsed >= FetchTimeout
       ELSE request.idle >= HttpTimeout

\* a second passes; an armed timer that is due fires first
Tick ==
    /\ request.pc = "calling"
    /\ request.elapsed < MaxElapsed
    /\ ~TimerDue
    /\ request' = [request EXCEPT !.elapsed = @ + 1, !.idle = @ + 1]
    /\ UNCHANGED <<probe, collectorVars, sampleVars, alertVars, queryVars, lateVars>>

\* req 'timeout' (lines 201-204), or controller.abort() (lines 115, 143-145)
TimerFire ==
    /\ request.pc = "calling"
    /\ TimerDue
    /\ request' = Settle(request, Timeout)
    /\ UNCHANGED <<probe, collectorVars, sampleVars, alertVars, queryVars, lateVars>>

\* what a remote may send as a body
RemoteBodies ==
    {NoBody, ChallengePage, ChallengeJson, JsonBody(TRUE, Null), JsonBody(FALSE, Null),
     JsonBody(FALSE, [version |-> "0.8.0"])}

(***************************************************************************)
(* A single node probe, call by call (Promise.all over the RPC calls).     *)
(***************************************************************************)
NoProbe == [impl |-> "none", calls |-> [m \in {} |-> Pending], out |-> [status |-> "none"]]

Impls == {"collector", "topology", "provider"}

\* The calls each implementation issues: the provider does not call get-pods.
CallsOf(impl) == IF impl = "provider" THEN {"get-version", "get-stats"} ELSE Methods

\* A probe starts: all its calls are issued at once.
ProbeStart(impl) ==
    /\ probe.impl = "none" \/ probe.out.status # "none"
    /\ probe' = [impl |-> impl, calls |-> [m \in CallsOf(impl) |-> Pending],
                 out |-> [status |-> "none"]]
    /\ UNCHANGED collectorVars
    /\ UNCHANGED sideVars

\* One call settles with whatever the node did.
ProbeCallSettle(m, reply) ==
    /\ probe.impl # "none"
    /\ m \in DOMAIN probe.calls
    /\ probe.calls[m] = Pending
    /\ probe' = [probe EXCEPT !.calls[m] = reply]
    /\ UNCHANGED collectorVars
    /\ UNCHANGED sideVars

\* The status each implementation derives once all calls have settled.
ProbeResult(impl, calls) ==
    IF impl = "collector"
    THEN fetchNodeStats(collectorCall(calls["get-version"]),
                        collectorCall(calls["get-stats"]),
                        collectorCall(calls["get-pods"]))
    ELSE IF impl = "topology"
    THEN topologyFetchNodeData(callApi(calls["get-version"]),
                               callApi(calls["get-stats"]),
                               callApi(calls["get-pods"]))
    ELSE providerFetchNodeData(callApi(calls["get-version"]), callApi(calls["get-stats"]))

\* Promise.all resolves: the probe returns its NodeStats / NodeData.
ProbeReturn ==
    /\ probe.impl # "none"
    /\ probe.out.status = "none"
    /\ \A m \in DOMAIN probe.calls : probe.calls[m] # Pending
    /\ probe' = [probe EXCEPT !.out = ProbeResult(probe.impl, probe.calls)]
    /\ UNCHANGED collectorVars
    /\ UNCHANGED sideVars

(***************************************************************************)
(* dataCollector.js: configuration                                         *)
(***************************************************************************)
\* Object.keys(RPC_ENDPOINTS), lines 6-11
AllNetworks == <<"devnet1", "devnet2", "mainnet1", "mainnet2">>

\* line 115: Math.min(20, pods.length)
SampleCap == 20

\* lines 120-121: i += 5, slice(i, i + 5)
BatchSize == 5

Min(a, b) == IF a < b THEN a ELSE b

(***************************************************************************)
(* Registry: a pod is named by its host (a positive integer; 0 stands for  *)
(* a record without an address member) and carries a pubkey (0: none).     *)
(***************************************************************************)
Pod(k) == [address |-> k, pubkey |-> k]

PodNoAddress(k) == [address |-> 0, pubkey |-> k]

\* get-pods result with n well-formed pods
Registry(n) == [hasPods |-> TRUE, pods |-> [k \in 1..n |-> Pod(k)], total_count |-> Num(n)]

\* get-pods result with n well-formed pods followed by one that lacks its address
RegistryBadPod(n) ==
    [hasPods |-> TRUE,
     pods |-> [k \in 1..(n + 1) |-> IF k = n + 1 THEN PodNoAddress(k) ELSE Pod(k)],
     total_count |-> Num(n + 1)]

\* get-pods result without a pods member
RegistryNoPods == [hasPods |-> FALSE, pods |-> <<>>, total_count |-> Null]

\* fetchPods with a catch that answers an empty registry instead of null
fetchPodsEmptyOnError(reply) ==
    IF reply.kind # "reply" \/ ~reply.body.json
    THEN [hasPods |-> TRUE, pods |-> <<>>, total_count |-> Null]
    ELSE reply.body.result

\* fetchPods, lines 28-48: data.result || null, null on any exception
fetchPods(reply) ==
    IF reply.kind # "reply" \/ ~reply.body.json THEN Null ELSE reply.body.result

(***************************************************************************)
(* collectNetworkData, lines 136-159: the aggregate of one cycle           *)
(***************************************************************************)
RECURSIVE SumOver(_, _)
\* nodes.reduce((acc, n) => acc + (n.f || 0), 0)
SumOver(nodes, f) ==
    IF Len(nodes) = 0 THEN Num(0)
    ELSE JsAdd(SumOver(SubSeq(nodes, 1, Len(nodes) - 1), f),
               OrElse(nodes[Len(nodes)][f], Num(0)))

\* the online filter of line 137 dropped: every sampled node taken as online
OnlineOfUnfiltered(nodeStats) == nodeStats

OnlineOf(nodeStats) == SelectSeq(nodeStats, LAMBDA n : n.status = "online")

\* the offline filter of line 138 comparing with a misspelt status
OfflineOfMisspelt(nodeStats) == SelectSeq(nodeStats, LAMBDA n : n.status = "Offline")

OfflineOf(nodeStats) == SelectSeq(nodeStats, LAMBDA n : n.status = "offline")

\* lines 145-150: the mean over the online nodes, 0 when there is none
MeanOver(onlineNodes, f) ==
    IF Len(onlineNodes) > 0
    THEN JsDiv(SumOver(onlineNodes, f), Num(Len(onlineNodes)))
    ELSE Num(0)

\* lines 153-158: count of the sampled nodes per reported version
VersionDistribution(nodeStats) ==
    LET versions == {nodeStats[j].version : j \in 1..Len(nodeStats)} \ {NullStr}
    IN  [v \in versions |-> Cardinality({j \in 1..Len(nodeStats) : nodeStats[j].version = v})]

Aggregate(totalPods, nodeStats) ==
    LET onlineNodes == OnlineOf(nodeStats)
        offlineNodes == OfflineOf(nodeStats)
    IN  [totalPods |-> totalPods,
         onlineNodes |-> Num(Len(onlineNodes)),
         offlineNodes |-> Num(Len(offlineNodes)),
         totalStorage |-> SumOver(onlineNodes, "storage"),
         avgCpu |-> MeanOver(onlineNodes, "cpu"),
         avgRam |-> MeanOver(onlineNodes, "ram"),
         totalStreams |-> SumOver(onlineNodes, "activeStreams"),
         totalBytesTransferred |->
             JsAdd(SumOver(onlineNodes, "packetsReceived"), SumOver(onlineNodes, "packetsSent")),
         versionDistribution |-> VersionDistribution(nodeStats)]

\* line 112: podsData.total_count || pods.length
TotalPods(podsData) == OrElse(podsData.total_count, Num(Len(podsData.pods)))

\* lines 115-116: the sample is the first min(20, n) pods of the registry
SampledPods(pods) == SubSeq(pods, 1, Min(SampleCap, Len(pods)))

\* slice(i) without its end: the rest of the sample in one batch
BatchUnbounded(sampledPods, i) == (i + 1)..Len(sampledPods)

\* lines 120-121: the indices of sampledPods.slice(i, i + 5)
Batch(sampledPods, i) == (i + 1)..Min(i + BatchSize, Len(sampledPods))

\* lines 125-130: the entry a probe contributes to nodeStats
NodeEntry(pod, network, stats) ==
    [address |-> pod.address, pubkey |-> pod.pubkey, network |-> network] @@ stats

\* a cache entry whose nodeStats is still the empty list of line 119
CacheEntryEmptyStats(timestamp, podsData, aggregatedData, nodeStats) ==
    [timestamp |-> timestamp, pods |-> podsData, stats |-> aggregatedData,
     nodeStats |-> <<>>]

\* lines 162-167: the cache entry written for a network
CacheEntry(timestamp, podsData, aggregatedData, nodeStats) ==
    [timestamp |-> timestamp, pods |-> podsData, stats |-> aggregatedData,
     nodeStats |-> nodeStats]

(***************************************************************************)
(* mongodb.js: the rows written by the two save operations                 *)
(***************************************************************************)
\* a row with the online and offline counts exchanged
SnapshotDocSwapped(network, timestamp, data) ==
    [network |-> network,
     timestamp |-> timestamp,
     totalPods |-> OrElse(data.totalPods, Num(0)),
     onlineNodes |-> OrElse(data.offlineNodes, Num(0)),
     offlineNodes |-> OrElse(data.onlineNodes, Num(0)),
     totalStorage |-> OrElse(data.totalStorage, Num(0)),
     avgCpu |-> OrElse(data.avgCpu, Num(0)),
     avgRam |-> OrElse(data.avgRam, Num(0)),
     totalStreams |-> OrElse(data.totalStreams, Num(0)),
     totalBytesTransferred |-> OrElse(data.totalBytesTransferred, Num(0)),
     versionDistribution |-> data.versionDistribution]

\* saveNetworkSnapshot, lines 119-131
SnapshotDoc(network, timestamp, data) ==
    [network |-> network,
     timestamp |-> timestamp,
     totalPods |-> OrElse(data.totalPods, Num(0)),
     onlineNodes |-> OrElse(data.onlineNodes, Num(0)),
     offlineNodes |-> OrElse(data.offlineNodes, Num(0)),
     totalStorage |-> OrElse(data.totalStorage, Num(0)),
     avgCpu |-> OrElse(data.avgCpu, Num(0)),
     avgRam |-> OrElse(data.avgRam, Num(0)),
     totalStreams |-> OrElse(data.totalStreams, Num(0)),
     totalBytesTransferred |-> OrElse(data.totalBytesTransferred, Num(0)),
     versionDistribution |-> data.versionDistribution]

\* saveNodeHistory, lines 148-164: one row per node, one timestamp for all
HistoryDocs(nodes, timestamp) ==
    [j \in 1..Len(nodes) |->
        [address |-> nodes[j].address, pubkey |-> nodes[j].pubkey,
         network |-> nodes[j].network, timestamp |-> timestamp,
         status |-> nodes[j].status, version |-> nodes[j].version,
         cpu |-> nodes[j].cpu, ram |-> nodes[j].ram, storage |-> nodes[j].storage,
         uptime |-> nodes[j].uptime, activeStreams |-> nodes[j].activeStreams,
         packetsReceived |-> nodes[j].packetsReceived,
         packetsSent |-> nodes[j].packetsSent, peersCount |-> nodes[j].peersCount]]

\* getLatestSnapshots, lines 351-365: per network, the row with the greatest timestamp
getLatestSnapshots(snapshots) ==
    {snapshots[j] : j \in {j \in 1..Len(snapshots) :
        \A k \in 1..Len(snapshots) :
            snapshots[k].network = snapshots[j].network
                => snapshots[k].timestamp <= snapshots[j].timestamp}}

(***************************************************************************)
(* mongodb.js: the six store operations as their callers see them.  dbc is *)
(* the value of db at the call, ok tells whether the driver call succeeds, *)
(* t is the clock, in minutes.  An array is List(items), so that an empty  *)
(* array is not null.  Each operation yields [threw, result, rows]: rows   *)
(* are the rows it appends.                                                *)
(***************************************************************************)
List(items) == [items |-> items]

StoreResult(threw, result, rows) == [threw |-> threw, result |-> result, rows |-> rows]

\* periodMs of getNetworkHistory (lines 185-191), in minutes
NetworkPeriodMs ==
    ("1h" :> 60) @@ ("6h" :> 360) @@ ("24h" :> 1440) @@ ("7d" :> 10080) @@ ("30d" :> 43200)

\* intervalMs of getNetworkHistory (lines 193-199), in minutes
IntervalMs == ("1m" :> 1) @@ ("5m" :> 5) @@ ("15m" :> 15) @@ ("1h" :> 60) @@ ("6h" :> 360)

\* periodMs of getNodeHistory (lines 264-269), in minutes
NodePeriodMs == ("1h" :> 60) @@ ("6h" :> 360) @@ ("24h" :> 1440) @@ ("7d" :> 10080)

\* periodMs of getAggregatedStats (lines 307-311), in minutes
StatsPeriodMs == ("1h" :> 60) @@ ("24h" :> 1440) @@ ("7d" :> 10080)

\* table[key] || table[fallback]
LookupOr(table, key, fallback) == IF key \in DOMAIN table THEN table[key] ELSE table[fallback]

RECURSIVE Pow10(_)
Pow10(places) == IF places = 0 THEN 1 ELSE 10 * Pow10(places - 1)

\* $round of a non-negative number: to the nearest multiple of 10^-places,
\* a tie going to the even one
MongoRound(x, places) ==
    IF x = NaN \/ x = Infinity THEN x
    ELSE LET scaled == x[1] * Pow10(places)
             q == scaled \div x[2]
             twice == 2 * (scaled % x[2])
             k == IF twice > x[2] \/ (twice = x[2] /\ q % 2 = 1) THEN q + 1 ELSE q
         IN  Frac(k, Pow10(places))

\* $avg of field f over rows
MongoAvg(rows, f) == JsDiv(SumOver(rows, f), Num(Len(rows)))

\* a <= b on finite numbers
NumLeq(a, b) == a[1] * b[2] <= b[1] * a[2]

\* $max and $min of field f over a non-empty list of rows with finite values
MongoMax(rows, f) ==
    rows[CHOOSE j \in 1..Len(rows) : \A k \in 1..Len(rows) : NumLeq(rows[k][f], rows[j][f])][f]

MongoMin(rows, f) ==
    rows[CHOOSE j \in 1..Len(rows) : \A k \in 1..Len(rows) : NumLeq(rows[j][f], rows[k][f])][f]

\* saveNetworkSnapshot(network, data), lines 116-140; reading a member of a
\* null data throws outside the try
saveNetworkSnapshot(dbc, ok, network, data, t) ==
    IF ~dbc THEN StoreResult(FALSE, Null, <<>>)
    ELSE IF data = Null THEN StoreResult(TRUE, Null, <<>>)
    ELSE IF ok THEN StoreResult(FALSE, [insertedId |-> t], <<SnapshotDoc(network, t, data)>>)
    ELSE StoreResult(FALSE, Null, <<>>)

\* saveNodeHistory(nodes), lines 145-173; the number it returns is given as
\* [insertedCount |-> n]
saveNodeHistory(dbc, ok, nodes, t) ==
    IF ~dbc \/ nodes = Null \/ Len(nodes) = 0 THEN StoreResult(FALSE, Null, <<>>)
    ELSE IF ok THEN StoreResult(FALSE, [insertedCount |-> Len(nodes)], HistoryDocs(nodes, t))
    ELSE StoreResult(FALSE, Null, <<>>)

RECURSIVE InsertByTimestamp(_, _)
InsertByTimestamp(sorted, d) ==
    IF Len(sorted) = 0 THEN <<d>>
    ELSE IF sorted[Len(sorted)].timestamp <= d.timestamp THEN Append(sorted, d)
    ELSE Append(InsertByTimestamp(SubSeq(sorted, 1, Len(sorted) - 1), d), sorted[Len(sorted)])

RECURSIVE SortByTimestamp(_)
\* .sort({ timestamp: 1 }) and $sort: { _id: 1 }; rows of one timestamp stay
\* in the order they came in
SortByTimestamp(rows) ==
    IF Len(rows) = 0 THEN <<>>
    ELSE InsertByTimestamp(SortByTimestamp(SubSeq(rows, 1, Len(rows) - 1)), rows[Len(rows)])

\* getNetworkHistory, lines 203-231 and 233-246: the rows of the network in
\* the period, averaged per bucket; $group emits its groups in no specified
\* order, here by ascending or (reversed) descending bucket
BucketGroups(reversed, snapshots, network, period, interval, t) ==
    LET startTime == t - LookupOr(NetworkPeriodMs, period, "24h")
        bucketMs == LookupOr(IntervalMs, interval, "15m")
        matched == SelectSeq(snapshots,
                       LAMBDA d : d.network = network /\ d.timestamp >= startTime)
        BucketOf(d) == d.timestamp - (d.timestamp % bucketMs)
        buckets == {BucketOf(matched[j]) : j \in 1..Len(matched)}
        Nth(k) == CHOOSE b \in buckets : Cardinality({c \in buckets : c < b}) = k - 1
        Row(b) ==
            LET rows == SelectSeq(matched, LAMBDA d : BucketOf(d) = b)
            IN  [timestamp |-> b,
                 totalPods |-> MongoRound(MongoAvg(rows, "totalPods"), 0),
                 onlineNodes |-> MongoRound(MongoAvg(rows, "onlineNodes"), 0),
                 offlineNodes |-> MongoRound(MongoAvg(rows, "offlineNodes"), 0),
                 totalStorage |-> MongoRound(MongoAvg(rows, "totalStorage"), 0),
                 avgCpu |-> MongoRound(MongoAvg(rows, "avgCpu"), 2),
                 avgRam |-> MongoRound(MongoAvg(rows, "avgRam"), 2),
                 totalStreams |-> MongoRound(MongoAvg(rows, "totalStreams"), 0)]
    IN  [k \in 1..Cardinality(buckets) |->
            Row(Nth(IF reversed THEN Cardinality(buckets) + 1 - k ELSE k))]

\* getNetworkHistory without its guard and its try: a null db throws
getNetworkHistoryUnguarded(dbc, ok, reversed, snapshots, network, period, interval, t) ==
    StoreResult(~dbc \/ ~ok, List(<<>>), <<>>)

\* getNetworkHistory without the $sort stage of line 232
getNetworkHistoryUnsorted(dbc, ok, reversed, snapshots, network, period, interval, t) ==
    IF ~dbc \/ ~ok THEN StoreResult(FALSE, List(<<>>), <<>>)
    ELSE StoreResult(FALSE,
             List(BucketGroups(reversed, snapshots, network, period, interval, t)), <<>>)

\* getNetworkHistory(network, period, interval), lines 181-253
getNetworkHistory(dbc, ok, reversed, snapshots, network, period, interval, t) ==
    IF ~dbc \/ ~ok THEN StoreResult(FALSE, List(<<>>), <<>>)
    ELSE StoreResult(FALSE,
             List(SortByTimestamp(
                      BucketGroups(reversed, snapshots, network, period, interval, t))),
             <<>>)

\* getNodeHistory(address, period), lines 260-298
getNodeHistory(dbc, ok, history, address, period, t) ==
    LET startTime == t - LookupOr(NodePeriodMs, period, "24h")
        matched == SortByTimestamp(SelectSeq(history,
                       LAMBDA d : d.address = address /\ d.timestamp >= startTime))
    IN  IF ~dbc \/ ~ok THEN StoreResult(FALSE, List(<<>>), <<>>)
        ELSE StoreResult(FALSE,
                 List([j \in 1..Len(matched) |->
                         [timestamp |-> matched[j].timestamp, status |-> matched[j].status,
                          cpu |-> matched[j].cpu, ram |-> matched[j].ram,
                          storage |-> matched[j].storage, uptime |-> matched[j].uptime,
                          activeStreams |-> matched[j].activeStreams,
                          peersCount |-> matched[j].peersCount]]),
                 <<>>)

\* getAggregatedStats(period), lines 303-342: results[0] || null
getAggregatedStats(dbc, ok, snapshots, period, t) ==
    LET startTime == t - LookupOr(StatsPeriodMs, period, "24h")
        matched == SelectSeq(snapshots, LAMBDA d : d.timestamp >= startTime)
    IN  IF ~dbc \/ ~ok \/ Len(matched) = 0 THEN StoreResult(FALSE, Null, <<>>)
        ELSE StoreResult(FALSE,
                 [avgTotalPods |-> MongoAvg(matched, "totalPods"),
                  avgOnlineNodes |-> MongoAvg(matched, "onlineNodes"),
                  maxOnlineNodes |-> MongoMax(matched, "onlineNodes"),
                  minOnlineNodes |-> MongoMin(matched, "onlineNodes"),
                  avgCpu |-> MongoAvg(matched, "avgCpu"),
                  avgRam |-> MongoAvg(matched, "avgRam"),
                  totalSnapshots |-> Num(Len(matched))],
                 <<>>)

\* getLatestSnapshots(), lines 347-370, as its caller sees it; the order of
\* the groups is not specified, the array is given as the set of its rows
getLatestSnapshotsCall(dbc, ok, snapshots) ==
    IF ~dbc \/ ~ok THEN StoreResult(FALSE, List({}), <<>>)
    ELSE StoreResult(FALSE, List(getLatestSnapshots(snapshots)), <<>>)

(***************************************************************************)
(* One invocation of collectAllNetworks (lines 181-199) and, inside it,    *)
(* of collectNetworkData (lines 102-176).  pc is the await it is parked at.*)
(***************************************************************************)
NoFn == [x \in {} |-> Null]

FreeRun ==
    [pc |-> "free",             \* free | fetchPods | probing | saveNetworkSnapshot
                                \*      | saveNodeHistory | returned
     nets |-> <<>>,             \* the networks the for-of loop iterates
     net |-> 0,                 \* index of the network being collected
     startTime |-> 0,           \* line 183: Date.now() when the cycle started
     results |-> NoFn,          \* results[network], for the networks done
     podsData |-> Null,
     sampledPods |-> <<>>,
     i |-> 0,                   \* loop variable of line 120
     inflight |-> {},           \* indices of sampledPods whose probe is pending
     batchStats |-> NoFn,       \* the settled probes of the current Promise.all
     nodeStats |-> <<>>,
     aggregatedData |-> Null,
     pendingDocs |-> <<>>]      \* the rows of the insert being awaited

NetworkOf(run) == run.nets[run.net]

Collecting(run) == run.pc \notin {"free", "returned"}

\* results[network] = result, then the next network or the return of line 198
RecordResult(run, result) ==
    LET network == NetworkOf(run)
        res == [n \in DOMAIN run.results \cup {network} |->
                    IF n = network THEN result ELSE run.results[n]]
    IN  IF run.net < Len(run.nets)
        THEN [FreeRun EXCEPT !.pc = "fetchPods", !.nets = run.nets, !.net = run.net + 1,
                             !.startTime = run.startTime, !.results = res]
        ELSE [FreeRun EXCEPT !.pc = "returned", !.nets = run.nets, !.net = run.net,
                             !.startTime = run.startTime, !.results = res]

\* the loop without its try/catch: an exception ends the whole cycle
collectAllNetworksNoCatch(run) == [run EXCEPT !.pc = "returned"]

\* lines 189-192: an exception of collectNetworkData is caught per network
collectAllNetworksCatch(run) == RecordResult(run, Null)

\* Promise.race in place of Promise.all: the first settled probe ends the wait
WaveSettledRace(inflight) == TRUE

\* Promise.all of line 122 resolves when none of its probes is pending
WaveSettled(inflight) == inflight = {}

(***************************************************************************)
(* The synchronous stretches of collectNetworkData, as functions of the    *)
(* world W = [runs, latestData, network_snapshots, node_history, now,      *)
(* orphanProbes]; dbc is the value of db when the stretch runs.            *)
(***************************************************************************)
World ==
    [runs |-> runs, latestData |-> latestData, network_snapshots |-> network_snapshots,
     node_history |-> node_history, now |-> now, orphanProbes |-> orphanProbes]

Finish(W, r, result) == [W EXCEPT !.runs[r] = RecordResult(@, result)]

\* line 171 and the return of line 175
HistoryStage(W, r, dbc) ==
    LET run == W.runs[r]
    IN  IF ~dbc \/ Len(run.nodeStats) = 0
        THEN Finish(W, r, run.aggregatedData)
        ELSE [W EXCEPT !.runs[r].pc = "saveNodeHistory",
                       !.runs[r].pendingDocs = HistoryDocs(run.nodeStats, W.now),
                       !.now = @ + 1]

\* lines 136-170: aggregate, replace the cache entry, call saveNetworkSnapshot
AggregateStage(W, r, dbc) ==
    LET run == W.runs[r]
        agg == Aggregate(TotalPods(run.podsData), run.nodeStats)
        entry == CacheEntry(W.now, run.podsData, agg, run.nodeStats)
        W1 == [W EXCEPT !.latestData[NetworkOf(run)] = entry,
                        !.runs[r].aggregatedData = agg,
                        !.now = @ + 1]
    IN  IF dbc
        THEN [W1 EXCEPT !.runs[r].pc = "saveNetworkSnapshot",
                        !.runs[r].pendingDocs = <<SnapshotDoc(NetworkOf(run), W.now, agg)>>]
        ELSE HistoryStage(W1, r, dbc)

\* lines 121-132: the probes of one batch are issued together; a pod without
\* an address makes fetchNodeStats throw (line 55), Promise.all rejects and
\* the probes already issued stay in flight.
StartWave(W, r) ==
    LET run == W.runs[r]
        batch == Batch(run.sampledPods, run.i)
        bad == {j \in batch : run.sampledPods[j].address = 0}
    IN  IF bad # {}
        THEN [W EXCEPT !.orphanProbes = @ + Cardinality(run.inflight \cup (batch \ bad)),
                       !.runs[r] = collectAllNetworksCatch(run)]
        ELSE [W EXCEPT !.runs[r].pc = "probing",
                       !.runs[r].batchStats = NoFn,
                       !.runs[r].inflight = run.inflight \cup batch]

\* line 120: the loop test
LoopStage(W, r, dbc) ==
    IF W.runs[r].i < Len(W.runs[r].sampledPods)
    THEN StartWave(W, r)
    ELSE AggregateStage(W, r, dbc)

\* lines 105-116: after fetchPods has settled
AfterFetchPods(W, r, podsData, dbc) ==
    IF podsData = Null \/ ~podsData.hasPods
    THEN Finish(W, r, Null)
    ELSE LoopStage([W EXCEPT !.runs[r].podsData = podsData,
                             !.runs[r].sampledPods = SampledPods(podsData.pods),
                             !.runs[r].nodeStats = <<>>,
                             !.runs[r].i = 0], r, dbc)

\* lines 122-133: one probe of the batch settles; when the batch has settled
\* its results are pushed in batch order and the loop goes on
AfterProbe(W, r, j, stats, dbc) ==
    LET run == W.runs[r]
        settled == [k \in DOMAIN run.batchStats \cup {j} |->
                        IF k = j THEN NodeEntry(run.sampledPods[j], NetworkOf(run), stats)
                        ELSE run.batchStats[k]]
        left == run.inflight \ {j}
        batch == Batch(run.sampledPods, run.i)
        pushed == [k \in 1..Cardinality(DOMAIN settled \cap batch) |->
                      settled[CHOOSE m \in DOMAIN settled \cap batch :
                          Cardinality({x \in DOMAIN settled \cap batch : x < m}) = k - 1]]
    IN  IF WaveSettled(left)
        THEN LoopStage([W EXCEPT !.runs[r].inflight = left,
                                 !.runs[r].batchStats = NoFn,
                                 !.runs[r].nodeStats = run.nodeStats \o pushed,
                                 !.runs[r].i = run.i + BatchSize], r, dbc)
        ELSE [W EXCEPT !.runs[r].inflight = left, !.runs[r].batchStats = settled]

Install(W) ==
    /\ runs' = W.runs
    /\ latestData' = W.latestData
    /\ network_snapshots' = W.network_snapshots
    /\ node_history' = W.node_history
    /\ now' = W.now
    /\ orphanProbes' = W.orphanProbes

(***************************************************************************)
(* Bounds and input domains of the collector                               *)
(***************************************************************************)
\* how many of the configured networks one cycle iterates
NumNetworks == 2

\* registry sizes in the scheduler and cycle scenarios
MaxPods == 1

\* registry sizes in the aggregation scenario
AggPods == 3

\* registry sizes in the wave scenario (a second wave needs more than BatchSize pods)
WavePods == 7

NetworkSet == {AllNetworks[k] : k \in 1..Len(AllNetworks)}

\* the first n configured networks, in configuration order
FirstNetworks(n) == SubSeq(AllNetworks, 1, Min(n, Len(AllNetworks)))

OkReply(payload) == Reply(200, JsonBody(FALSE, payload))

\* what a registry endpoint may answer to get-pods
RegistryFailures == {NetErr, Reply(500, NoBody), OkReply(Null), OkReply(RegistryNoPods)}

RegistryReplies(maxPods) ==
    RegistryFailures
    \cup {OkReply(Registry(n)) : n \in 0..maxPods}
    \cup {OkReply(RegistryBadPod(n)) : n \in 0..maxPods}

\* a node that is down, and nodes that answer some or all of their calls
NodeDown == <<NetErr, NetErr, NetErr>>

NodeUp == <<OkReply([version |-> "0.8.0"]),
            OkReply(Stats(Num(10), Num(1), Num(4), Num(100), Num(2))),
            OkReply([total_count |-> Num(3)])>>

NodeBusy == <<OkReply([version |-> "0.7.3"]),
              OkReply(Stats(Num(25), Num(2), Num(4), Num(50), Num(1))),
              Timeout>>

NodeNoStats == <<OkReply([version |-> "0.8.0"]), Timeout, Timeout>>

NodeNoVersion == <<Reply(500, NoBody),
                   OkReply(Stats(Num(40), Num(3), Num(4), Num(0), Num(0))),
                   OkReply([total_count |-> Num(3)])>>

\* answers get-version and get-stats with a JSON-RPC error
NodeErrors == <<Reply(200, JsonBody(TRUE, Null)), Reply(200, JsonBody(TRUE, Null)), NetErr>>

ProbeReplies == {NodeDown, NodeUp}

AggProbeReplies == {NodeDown, NodeUp, NodeBusy, NodeNoStats, NodeNoVersion, NodeErrors}

(***************************************************************************)
(* Actions of the collector                                                *)
(***************************************************************************)
FreeSlot(r) == runs[r].pc = "free" /\ \A q \in DOMAIN runs : q < r => runs[q].pc # "free"

\* collectAllNetworks is called: the loop starts on the first network and
\* parks at the fetch of fetchPods (line 29)
StartRun(r, nets) ==
    /\ FreeSlot(r)
    /\ runs' = [runs EXCEPT ![r] = [FreeRun EXCEPT !.pc = "fetchPods", !.nets = nets,
                                                   !.net = 1, !.startTime = now]]

\* startCollector, lines 219-221: the initial delayed run fires
InitialRun(nets) ==
    /\ timerPending
    /\ \E r \in DOMAIN runs : StartRun(r, nets)
    /\ timerPending' = FALSE
    /\ UNCHANGED <<probe, latestData, db, network_snapshots, node_history, now,
                   orphanProbes, lastRead>>
    /\ UNCHANGED sideVars

\* startCollector, lines 224-226: a cron tick fires
CronTick(nets) ==
    /\ ~cronStopped
    /\ \E r \in DOMAIN runs : StartRun(r, nets)
    /\ UNCHANGED <<probe, timerPending, latestData, db, network_snapshots, node_history,
                   now, orphanProbes, lastRead>>
    /\ UNCHANGED sideVars

\* fetchPods settles (line 105)
FetchPodsSettle(r, reply) ==
    /\ runs[r].pc = "fetchPods"
    /\ Install(AfterFetchPods(World, r, fetchPods(reply), db))
    /\ UNCHANGED <<probe, timerPending, db, lastRead>>
    /\ UNCHANGED sideVars

\* the probe of sampled pod j settles (line 124) with the node's three replies
ProbeSettle(r, j, replies) ==
    /\ runs[r].pc = "probing"
    /\ j \in runs[r].inflight
    /\ Install(AfterProbe(World, r, j,
                          fetchNodeStats(collectorCall(replies[1]), collectorCall(replies[2]),
                                         collectorCall(replies[3])), db))
    /\ UNCHANGED <<probe, timerPending, db, lastRead>>
    /\ UNCHANGED sideVars

\* insertOne of saveNetworkSnapshot settles (mongodb.js 133-139): the row is
\* stored, or the error is logged and swallowed
SaveSnapshotSettle(r, ok) ==
    /\ runs[r].pc = "saveNetworkSnapshot"
    /\ LET W == IF ok
                THEN [World EXCEPT !.network_snapshots = @ \o runs[r].pendingDocs]
                ELSE World
       IN  Install(HistoryStage([W EXCEPT !.runs[r].pendingDocs = <<>>], r, db))
    /\ UNCHANGED <<probe, timerPending, db, lastRead>>
    /\ UNCHANGED sideVars

\* insertMany of saveNodeHistory settles (mongodb.js 166-172)
SaveHistorySettle(r, ok) ==
    /\ runs[r].pc = "saveNodeHistory"
    /\ LET W == IF ok
                THEN [World EXCEPT !.node_history = @ \o runs[r].pendingDocs]
                ELSE World
       IN  Install(Finish(W, r, runs[r].aggregatedData))
    /\ UNCHANGED <<probe, timerPending, db, lastRead>>
    /\ UNCHANGED sideVars

\* a probe left behind by a thrown collectNetworkData settles; nobody listens
OrphanSettle ==
    /\ orphanProbes > 0
    /\ orphanProbes' = orphanProbes - 1
    /\ UNCHANGED <<probe, timerPending, runs, latestData, db, network_snapshots,
                   node_history, now, lastRead>>
    /\ UNCHANGED sideVars

\* stopCollector(job), lines 234-239: job.stop() ends the cron schedule; the
\* timeout of startCollector (lines 219-221) is not touched
StopCollector ==
    /\ ~cronStopped
    /\ cronStopped' = TRUE
    /\ UNCHANGED <<probe, timerPending, runs, latestData, db, network_snapshots,
                   node_history, now, orphanProbes, lastRead>>
    /\ UNCHANGED <<proxyVars, sampleVars, alertVars, queryVars>>
    /\ UNCHANGED <<pods_snapshots, podCredits, provider>>

\* mongodb.js connect, lines 19-45: the connection is established
Connect ==
    /\ ~db
    /\ db' = TRUE
    /\ UNCHANGED <<probe, timerPending, runs, latestData, network_snapshots, node_history,
                   now, orphanProbes, lastRead>>
    /\ UNCHANGED sideVars

\* getLatestData(network), lines 204-209
getLatestData(network) ==
    /\ lastRead' = latestData[network]
    /\ UNCHANGED <<probe, timerPending, runs, latestData, db, network_snapshots,
                   node_history, now, orphanProbes>>
    /\ UNCHANGED sideVars

(***************************************************************************)
(* Specifications                                                          *)
(***************************************************************************)
\* nothing sampled, checked or queried yet
NoSample == [pods |-> <<>>, sampledPods |-> <<>>]

NoAlertLog == [nodeStats |-> <<>>, sent |-> <<>>]

NoQuery == [op |-> "none", threw |-> FALSE, result |-> Null]

\* podCreditsCache = null, podCreditsExpiry = 0, no request in flight, no call
\* made yet (call and fetched record what the callers observed)
NoCredits ==
    [cache |-> Null, expiry |-> 0, inFlight |-> 0,
     call |-> [op |-> "none", outbound |-> FALSE, result |-> Null],
     fetched |-> [done |-> FALSE, at |-> 0, data |-> Null]]

\* NodesProvider once mounted (lines 333-340, 676-679): devnet1 selected,
\* nothing shown, the registry cache of IndexedDB empty, and the fetch of the
\* mount effect awaiting its cache read.  Pod and node lists are named by the
\* network they belong to ("" is the empty list).
NoProvider ==
    [selectedNetwork |-> "devnet1", registryPods |-> "", nodes |-> "",
     registryStatus |-> "loading", registryCache |-> {},
     pending |-> {[fn |-> "fetchRegistryPods", networkId |-> "devnet1",
                   pc |-> "getFromDB", hadPods |-> FALSE]}]

InitCollector(slots) ==
    /\ probe = NoProbe
    /\ timerPending = TRUE
    /\ runs = [r \in slots |-> FreeRun]
    /\ latestData = [n \in NetworkSet |-> Null]
    /\ db = FALSE
    /\ network_snapshots = <<>>
    /\ node_history = <<>>
    /\ now = 1
    /\ orphanProbes = 0
    /\ lastRead = Null
    /\ request = IdleRequest
    /\ sample = NoSample
    /\ bot = FALSE
    /\ subscribers = <<>>
    /\ nodeAlertHistory = NoFn
    /\ alertLog = NoAlertLog
    /\ lastQuery = NoQuery
    /\ pods_snapshots = <<>>
    /\ podCredits = NoCredits
    /\ cronStopped = FALSE
    /\ provider = NoProvider

\* The steps of the collector over the networks nets, with the registries
\* and the nodes answering from the given domains.
Collector(nets, registryReplies, probeReplies) ==
    \/ InitialRun(nets)
    \/ CronTick(nets)
    \/ \E r \in DOMAIN runs : \E reply \in registryReplies : FetchPodsSettle(r, reply)
    \/ \E r \in DOMAIN runs : \E j \in runs[r].inflight : \E t \in probeReplies :
          ProbeSettle(r, j, t)
    \/ \E r \in DOMAIN runs : \E ok \in BOOLEAN : SaveSnapshotSettle(r, ok)
    \/ \E r \in DOMAIN runs : \E ok \in BOOLEAN : SaveHistorySettle(r, ok)
    \/ Connect

\* Scheduler scenario: the collector after startCollector(), timer armed and
\* cron scheduled; two invocations of collectAllNetworks, which may overlap,
\* over a configuration of one network, with readers of the cache.
Init == InitCollector({1, 2})

Next ==
    \/ Collector(FirstNetworks(1), RegistryReplies(MaxPods), ProbeReplies)
    \/ OrphanSettle
    \/ \E n \in NetworkSet : getLatestData(n)

Spec == Init /\ [][Next]_vars

\* Cycle scenario: one invocation of collectAllNetworks over NumNetworks networks.
InitCycle == InitCollector({1})

NextCycle ==
    \/ Collector(FirstNetworks(NumNetworks), RegistryReplies(MaxPods), ProbeReplies)
    \/ OrphanSettle

SpecCycle == InitCycle /\ [][NextCycle]_vars

\* Aggregation scenario: one collection of one network, nodes answering in
\* every way that matters to the aggregate.
NextAgg ==
    Collector(FirstNetworks(1), {NetErr} \cup {OkReply(Registry(n)) : n \in 0..AggPods},
              AggProbeReplies)

SpecAgg == InitCycle /\ [][NextAgg]_vars

\* Wave scenario: one collection of one network whose sample needs several waves.
NextWave ==
    Collector(FirstNetworks(1), {NetErr} \cup {OkReply(Registry(n)) : n \in 0..WavePods},
              ProbeReplies)

SpecWave == InitCycle /\ [][NextWave]_vars

\* A single node probe, call by call.
InitProbe == InitCollector({})

NextProbe ==
    \/ \E impl \in Impls : ProbeStart(impl)
    \/ \E m \in Methods : \E reply \in Replies(m) : ProbeCallSettle(m, reply)
    \/ ProbeReturn

SpecProbe == InitProbe /\ [][NextProbe]_vars

(***************************************************************************)
(* Dashboard: the registry fetch of the topology page and of NodesProvider *)
(***************************************************************************)
\* a pod record of the registry with its last-seen timestamp
SeenPod(k, t) == [address |-> k, pubkey |-> k, last_seen_timestamp |-> t]

RECURSIVE InsertByLastSeen(_, _)
\* pod goes before the first pod of sorted that it is fresher than
InsertByLastSeen(sorted, pod) ==
    IF sorted = <<>> THEN <<pod>>
    ELSE IF pod.last_seen_timestamp > Head(sorted).last_seen_timestamp
         THEN <<pod>> \o sorted
         ELSE <<Head(sorted)>> \o InsertByLastSeen(Tail(sorted), pod)

RECURSIVE SortByLastSeen(_)
\* data.pods.sort((a, b) => b.last_seen_timestamp - a.last_seen_timestamp), a stable sort
SortByLastSeen(pods) ==
    IF pods = <<>> THEN <<>>
    ELSE InsertByLastSeen(SortByLastSeen(SubSeq(pods, 1, Len(pods) - 1)), pods[Len(pods)])

\* callRpcEndpoint (topology/page.tsx 185-207, NodesProvider 371-384): the
\* registries are https endpoints, reached through the proxy
callRpcEndpoint(reply) ==
    LET response == Answer(makeFetchRequest(reply))
    IN  IF response.status < 200 \/ response.status > 299
        THEN [error |-> TRUE, result |-> Null]
        ELSE IF response.body.error THEN [error |-> TRUE, result |-> Null]
        ELSE [error |-> FALSE, result |-> response.body.result]

\* what the dashboard shows of the registry
RegistryView(status, error, pods) ==
    [registryStatus |-> status, registryError |-> error, registryPods |-> pods]

LoadingView == RegistryView("loading", NullStr, <<>>)

\* topology/page.tsx fetchRegistryPods, lines 213-236, from the view ui; a
\* result without its result member makes line 231 throw and leaves the view
topologyFetchRegistryPods(res, ui) ==
    LET loading == [ui EXCEPT !.registryStatus = "loading", !.registryError = NullStr]
    IN  IF res.error THEN RegistryView("error", "transport", <<>>)
        ELSE IF res.result = Null THEN loading
        ELSE IF ~res.result.hasPods \/ Len(res.result.pods) = 0
             THEN RegistryView("error", "No pods found in registry", <<>>)
        ELSE RegistryView("success", NullStr, SortByLastSeen(res.result.pods))

\* NodesProvider fetchRegistryPods, lines 527-574, with an empty local cache
providerFetchRegistryPods(res, skipCache, ui) ==
    LET cleared == [ui EXCEPT !.registryError = NullStr]
        report == skipCache \/ Len(ui.registryPods) = 0
    IN  IF res.error
        THEN (IF report THEN RegistryView("error", "transport", <<>>) ELSE cleared)
        ELSE IF res.result = Null THEN cleared
        ELSE IF ~res.result.hasPods \/ Len(res.result.pods) = 0
             THEN (IF report THEN RegistryView("error", "No pods found in registry", <<>>)
                   ELSE cleared)
        ELSE RegistryView("success", NullStr, SortByLastSeen(res.result.pods))

(***************************************************************************)
(* The sample collectNetworkData takes of a registry answer                *)
(***************************************************************************)
\* registry sizes in the sampling scenario (more than SampleCap pods are needed
\* for the sample to leave a pod out)
MaxRegistry == 21

\* n pods whose last-seen timestamps 1..n are rotated by r: with r = 0 the
\* registry lists its pods from the stalest to the freshest
RotatedRegistry(n, r) == [k \in 1..n |-> SeenPod(k, ((k + r - 1) % n) + 1)]

\* n pods listed from the freshest to the stalest
FreshestFirstRegistry(n) == [k \in 1..n |-> SeenPod(k, n + 1 - k)]

RegistryOrders(maxPods) ==
    {FreshestFirstRegistry(n) : n \in 0..maxPods}
    \cup UNION {{RotatedRegistry(n, r) : r \in 0..(n - 1)} : n \in 1..maxPods}

\* collectNetworkData, lines 111-116, on the pod list pods of the registry
SampleRegistry(pods) ==
    /\ sample' = [pods |-> pods, sampledPods |-> SampledPods(pods)]
    /\ UNCHANGED <<probe, collectorVars, proxyVars, alertVars, queryVars, lateVars>>

\* Sampling scenario: registries of up to MaxRegistry pods in several orders.
NextSample == \E pods \in RegistryOrders(MaxRegistry) : SampleRegistry(pods)

SpecSample == InitProbe /\ [][NextSample]_vars

(***************************************************************************)
(* Telegram bot: node status alerts.  bot is FALSE while the module's bot  *)
(* is null.  subscribers is the Map chatId -> Set of pubkeys as the        *)
(* sequence of its entries in insertion order; nodeAlertHistory is the Map *)
(* pubkey -> status.  A pubkey is a positive integer, 0 stands for a node  *)
(* without one.  alertLog keeps the node stats handed to the latest call   *)
(* of checkNodeAlerts and the messages that call handed to                 *)
(* bot.sendMessage, in order (a failed send is caught, line 1005).         *)
(***************************************************************************)
\* nodes in the stats of one cycle
MaxStats == 1

\* the chats that talk to the bot and the pubkeys of the nodes
ChatIds == {1, 2}
Pubkeys == {1, 2}

AlertNode(pubkey, status) == [pubkey |-> pubkey, status |-> status]

AlertNodes == {AlertNode(k, st) : k \in Pubkeys \cup {0}, st \in {"online", "offline"}}

NodeStatsLists == UNION {[1..n -> AlertNodes] : n \in 0..MaxStats}

\* Map.prototype.set
MapSet(m, k, v) == [x \in DOMAIN m \cup {k} |-> IF x = k THEN v ELSE m[x]]

\* Map.prototype.get: NullStr for undefined
MapGet(m, k) == IF k \in DOMAIN m THEN m[k] ELSE NullStr

\* subscribers.has(chatId)
HasChat(subs, chatId) == \E i \in 1..Len(subs) : subs[i].chatId = chatId

\* sendNodeAlert stopping at the first chat that subscribes to the pubkey
sendNodeAlertFirstChat(b, subs, pubkey, status) ==
    IF ~b THEN <<>>
    ELSE LET chats == SelectSeq(subs, LAMBDA c : pubkey \in c.subs)
         IN  [i \in 1..Min(1, Len(chats)) |->
                 [chatId |-> chats[i].chatId, pubkey |-> pubkey, status |-> status]]

\* sendNodeAlert, lines 987-1010: one message to every chat whose set holds
\* the pubkey, in the order of the Map
sendNodeAlert(b, subs, pubkey, status) ==
    IF ~b THEN <<>>
    ELSE LET chats == SelectSeq(subs, LAMBDA c : pubkey \in c.subs)
         IN  [i \in 1..Len(chats) |->
                 [chatId |-> chats[i].chatId, pubkey |-> pubkey, status |-> status]]

\* checkNodeAlerts, lines 1028-1033: the inner loop calls sendNodeAlert once,
\* at the first chat that subscribes to the pubkey
AlertSubscribers(b, subs, pubkey, status) ==
    IF \E i \in 1..Len(subs) : pubkey \in subs[i].subs
    THEN sendNodeAlert(b, subs, pubkey, status)
    ELSE <<>>

\* checkNodeAlerts, lines 1018-1038: the loop over nodeStats from node i on
RECURSIVE checkNodesFrom(_, _, _, _, _)
checkNodesFrom(nodeStats, i, subs, history, sent) ==
    IF i > Len(nodeStats) THEN [history |-> history, sent |-> sent]
    ELSE LET pubkey == nodeStats[i].pubkey
             currentStatus == nodeStats[i].status
             previousStatus == MapGet(history, pubkey)
         IN  IF pubkey = 0
             THEN checkNodesFrom(nodeStats, i + 1, subs, history, sent)
             ELSE checkNodesFrom(nodeStats, i + 1, subs,
                      MapSet(history, pubkey, currentStatus),
                      IF previousStatus # NullStr /\ previousStatus # currentStatus
                      THEN sent \o AlertSubscribers(TRUE, subs, pubkey, currentStatus)
                      ELSE sent)

\* initBot, lines 506-512: without a token the bot stays null
InitBot(token) ==
    /\ ~bot
    /\ bot' = token
    /\ UNCHANGED <<subscribers, nodeAlertHistory, alertLog>>
    /\ UNCHANGED <<probe, collectorVars, proxyVars, sampleVars, queryVars, lateVars>>

\* /subscribe <pubkey>, lines 808-824; long: the text has 10 characters or more
Subscribe(chatId, pubkey, long) ==
    /\ bot
    /\ subscribers' =
          IF ~long THEN subscribers
          ELSE LET subs == IF HasChat(subscribers, chatId) THEN subscribers
                           ELSE Append(subscribers, [chatId |-> chatId, subs |-> {}])
               IN  [i \in 1..Len(subs) |->
                      IF subs[i].chatId = chatId
                      THEN [subs[i] EXCEPT !.subs = @ \cup {pubkey}]
                      ELSE subs[i]]
    /\ UNCHANGED <<bot, nodeAlertHistory, alertLog>>
    /\ UNCHANGED <<probe, collectorVars, proxyVars, sampleVars, queryVars, lateVars>>

\* /unsubscribe <pubkey>, lines 827-837: the chat keeps its entry
Unsubscribe(chatId, pubkey) ==
    /\ bot
    /\ subscribers' = [i \in 1..Len(subscribers) |->
                          IF subscribers[i].chatId = chatId
                          THEN [subscribers[i] EXCEPT !.subs = @ \ {pubkey}]
                          ELSE subscribers[i]]
    /\ UNCHANGED <<bot, nodeAlertHistory, alertLog>>
    /\ UNCHANGED <<probe, collectorVars, proxyVars, sampleVars, queryVars, lateVars>>

\* checkNodeAlerts(nodeStats), lines 1015-1039
CheckNodeAlerts(nodeStats) ==
    /\ IF ~bot \/ Len(subscribers) = 0
       THEN /\ nodeAlertHistory' = nodeAlertHistory
            /\ alertLog' = [nodeStats |-> nodeStats, sent |-> <<>>]
       ELSE LET done == checkNodesFrom(nodeStats, 1, subscribers, nodeAlertHistory, <<>>)
            IN  /\ nodeAlertHistory' = done.history
                /\ alertLog' = [nodeStats |-> nodeStats, sent |-> done.sent]
    /\ UNCHANGED <<bot, subscribers>>
    /\ UNCHANGED <<probe, collectorVars, proxyVars, sampleVars, queryVars, lateVars>>

\* Alert scenario: chats subscribe and unsubscribe, and every cycle hands its
\* node stats to checkNodeAlerts.
NextAlert ==
    \/ \E token \in BOOLEAN : InitBot(token)
    \/ \E chatId \in ChatIds : \E pubkey \in Pubkeys : \E long \in BOOLEAN :
          Subscribe(chatId, pubkey, long)
    \/ \E chatId \in ChatIds : \E pubkey \in Pubkeys : Unsubscribe(chatId, pubkey)
    \/ \E nodeStats \in NodeStatsLists : CheckNodeAlerts(nodeStats)

SpecAlert == InitProbe /\ [][NextAlert]_vars

(***************************************************************************)
(* The store operations called while the collector runs.  lastQuery is the *)
(* outcome of the latest call: the operation, whether it threw, and what   *)
(* it returned.                                                            *)
(***************************************************************************)
\* rows the store holds in the store scenario
MaxRows == 1

\* one online node as collectNetworkData hands it to saveNodeHistory
SavedNode ==
    NodeEntry(Pod(1), AllNetworks[1],
              fetchNodeStats(collectorCall(NodeUp[1]), collectorCall(NodeUp[2]),
                             collectorCall(NodeUp[3])))

SavedAggregates == {Null, Aggregate(Num(1), <<SavedNode>>)}

SavedNodeLists == {Null, <<SavedNode>>}

QueryPeriods == {"1h", "1y"}

QueryIntervals == {"6h"}

\* the call returns or throws; its rows are appended
Returned(op, call) ==
    /\ lastQuery' = [op |-> op, threw |-> call.threw, result |-> call.result]
    /\ UNCHANGED <<probe, timerPending, runs, latestData, db, orphanProbes, lastRead>>
    /\ UNCHANGED <<proxyVars, sampleVars, alertVars, lateVars>>

SaveNetworkSnapshotCall(maxRows, network, data, ok) ==
    LET call == saveNetworkSnapshot(db, ok, network, data, now)
    IN  /\ Len(network_snapshots) < maxRows
        /\ Returned("saveNetworkSnapshot", call)
        /\ network_snapshots' = network_snapshots \o call.rows
        /\ now' = IF Len(call.rows) > 0 THEN now + 1 ELSE now
        /\ UNCHANGED node_history

SaveNodeHistoryCall(maxRows, nodes, ok) ==
    LET call == saveNodeHistory(db, ok, nodes, now)
    IN  /\ Len(node_history) < maxRows
        /\ Returned("saveNodeHistory", call)
        /\ node_history' = node_history \o call.rows
        /\ now' = IF Len(call.rows) > 0 THEN now + 1 ELSE now
        /\ UNCHANGED network_snapshots

GetNetworkHistoryCall(network, period, interval, ok, reversed) ==
    /\ Returned("getNetworkHistory",
                getNetworkHistory(db, ok, reversed, network_snapshots, network, period,
                                  interval, now))
    /\ UNCHANGED <<network_snapshots, node_history, now>>

GetNodeHistoryCall(address, period, ok) ==
    /\ Returned("getNodeHistory", getNodeHistory(db, ok, node_history, address, period, now))
    /\ UNCHANGED <<network_snapshots, node_history, now>>

GetAggregatedStatsCall(period, ok) ==
    /\ Returned("getAggregatedStats",
                getAggregatedStats(db, ok, network_snapshots, period, now))
    /\ UNCHANGED <<network_snapshots, node_history, now>>

GetLatestSnapshotsCall(ok) ==
    /\ Returned("getLatestSnapshots", getLatestSnapshotsCall(db, ok, network_snapshots))
    /\ UNCHANGED <<network_snapshots, node_history, now>>

\* Store scenario: one invocation of collectAllNetworks over one network, the
\* store connected or not, and callers of the store operations.
NextStore ==
    \/ Collector(FirstNetworks(1), {NetErr, OkReply(Registry(1))}, ProbeReplies)
    \/ \E data \in SavedAggregates : \E ok \in BOOLEAN :
          SaveNetworkSnapshotCall(MaxRows, AllNetworks[1], data, ok)
    \/ \E nodes \in SavedNodeLists : \E ok \in BOOLEAN :
          SaveNodeHistoryCall(MaxRows, nodes, ok)
    \/ \E period \in QueryPeriods : \E interval \in QueryIntervals : \E ok \in BOOLEAN :
          GetNetworkHistoryCall(AllNetworks[1], period, interval, ok, FALSE)
    \/ \E period \in QueryPeriods : \E ok \in BOOLEAN : GetNodeHistoryCall(1, period, ok)
    \/ \E period \in QueryPeriods : \E ok \in BOOLEAN : GetAggregatedStatsCall(period, ok)
    \/ \E ok \in BOOLEAN : GetLatestSnapshotsCall(ok)

SpecStore == InitCycle /\ [][NextStore]_vars

(***************************************************************************)
(* The store over time.  The clock is in minutes; the TTL monitor of the   *)
(* database deletes, in every collection that has a TTL index, the rows    *)
(* whose timestamp is expireAfterSeconds or more in the past.              *)
(***************************************************************************)
\* rows per collection in the history scenario
HistoryRows == 2

\* createIndexes, lines 78-87: expireAfterSeconds of the TTL indexes, in minutes
ExpireAfter == 43200

\* createIndexes, lines 78-87: the collections that get a TTL index
TtlCollections == {"network_snapshots", "node_history"}

\* the readings of the clock in the history scenario: the start, one hour
\* later and a minute after that
HistoryReadings == {1, 61, 62}

\* the readings of the clock in the retention scenario: one and two minutes
\* past the start, and thirty days later
RetentionReadings == {1, 2, 43201, 43202}

\* the readings of the clock in the period scenario: one and two minutes past
\* the start, and past each period after the start
PeriodReadings == {1, 2, 61, 62, 361, 362, 1441, 1442, 10081, 10082, 43201, 43202}

\* the documented periods, and one that is not a period
AllPeriods == {"1h", "6h", "24h", "7d", "30d", "1y"}

HistoryAggregates == {Aggregate(Num(1), <<SavedNode>>), Aggregate(Num(2), <<>>)}

\* one bucket per minute, and one bucket for all
HistoryIntervals == {"1m", "6h"}

\* time passes
ClockAdvance(t) ==
    /\ t > now
    /\ now' = t
    /\ UNCHANGED <<probe, timerPending, runs, latestData, db, network_snapshots,
                   node_history, orphanProbes, lastRead>>
    /\ UNCHANGED sideVars

Expire(collection, rows, t) ==
    IF collection \in TtlCollections
    THEN SelectSeq(rows, LAMBDA d : d.timestamp + ExpireAfter > t)
    ELSE rows

\* a pass of the TTL monitor
ExpiryPass ==
    /\ db
    /\ network_snapshots' = Expire("network_snapshots", network_snapshots, now)
    /\ node_history' = Expire("node_history", node_history, now)
    /\ pods_snapshots' = Expire("pods_snapshots", pods_snapshots, now)
    /\ UNCHANGED <<probe, timerPending, runs, latestData, db, now, orphanProbes, lastRead>>
    /\ UNCHANGED <<proxyVars, sampleVars, alertVars, lastQuery, podCredits, cronStopped,
                   provider>>

\* a writer of the pods_snapshots collection (mongodb.js has none) stores the
\* pod list of a network
InsertPodsSnapshot(network) ==
    /\ db
    /\ Len(pods_snapshots) < MaxRows
    /\ pods_snapshots' = Append(pods_snapshots, [network |-> network, timestamp |-> now])
    /\ UNCHANGED <<probe, timerPending, runs, latestData, db, network_snapshots,
                   node_history, now, orphanProbes, lastRead>>
    /\ UNCHANGED <<proxyVars, sampleVars, alertVars, lastQuery, podCredits, cronStopped,
                   provider>>

\* a caller runs the same getNetworkHistory query twice, the second time when
\* the clock reads t2, the store unchanged in between
GetNetworkHistoryTwice(network, period, interval, reversed1, reversed2, t2) ==
    LET first == getNetworkHistory(db, TRUE, reversed1, network_snapshots, network,
                                   period, interval, now)
        second == getNetworkHistory(db, TRUE, reversed2, network_snapshots, network,
                                    period, interval, t2)
    IN  /\ t2 >= now
        /\ lastQuery' = [op |-> "getNetworkHistory twice",
                         threw |-> first.threw \/ second.threw,
                         result |-> [first |-> first.result, second |-> second.result]]
        /\ now' = t2
        /\ UNCHANGED <<probe, timerPending, runs, latestData, db, network_snapshots,
                       node_history, orphanProbes, lastRead>>
        /\ UNCHANGED <<proxyVars, sampleVars, alertVars, lateVars>>

\* History scenario: a connected store written and queried within an hour.
NextHistory ==
    \/ Connect
    \/ \E t \in HistoryReadings : ClockAdvance(t)
    \/ \E data \in HistoryAggregates : \E ok \in BOOLEAN :
          SaveNetworkSnapshotCall(HistoryRows, AllNetworks[1], data, ok)
    \/ \E ok \in BOOLEAN : SaveNodeHistoryCall(MaxRows, <<SavedNode>>, ok)
    \/ \E interval \in HistoryIntervals :
       \E reversed1 \in BOOLEAN : \E reversed2 \in BOOLEAN :
       \E t2 \in HistoryReadings \cup {now} :
          GetNetworkHistoryTwice(AllNetworks[1], "1h", interval, reversed1, reversed2, t2)

SpecHistory == InitProbe /\ [][NextHistory]_vars

\* Retention scenario: a connected store written, then left for thirty days
\* with the TTL monitor running.
NextRetention ==
    \/ Connect
    \/ \E t \in RetentionReadings : ClockAdvance(t)
    \/ ExpiryPass
    \/ \E ok \in BOOLEAN :
          SaveNetworkSnapshotCall(MaxRows, AllNetworks[1], Aggregate(Num(1), <<SavedNode>>), ok)
    \/ \E ok \in BOOLEAN : SaveNodeHistoryCall(MaxRows, <<SavedNode>>, ok)
    \/ InsertPodsSnapshot(AllNetworks[1])
    \/ \E ok \in BOOLEAN : GetNetworkHistoryCall(AllNetworks[1], "30d", "6h", ok, FALSE)
    \/ \E ok \in BOOLEAN : GetNodeHistoryCall(1, "7d", ok)
    \/ \E ok \in BOOLEAN : GetAggregatedStatsCall("7d", ok)
    \/ \E ok \in BOOLEAN : GetLatestSnapshotsCall(ok)

SpecRetention == InitProbe /\ [][NextRetention]_vars

\* Period scenario: rows stored at the start, and the three queries that take
\* a period run at every distance from them.
NextPeriods ==
    \/ Connect
    \/ \E t \in PeriodReadings : ClockAdvance(t)
    \/ SaveNetworkSnapshotCall(MaxRows, AllNetworks[1], Aggregate(Num(1), <<SavedNode>>), TRUE)
    \/ SaveNodeHistoryCall(MaxRows, <<SavedNode>>, TRUE)
    \/ \E period \in AllPeriods : \E ok \in BOOLEAN :
          GetNetworkHistoryCall(AllNetworks[1], period, "1m", ok, FALSE)
    \/ \E period \in AllPeriods : \E ok \in BOOLEAN : GetNodeHistoryCall(1, period, ok)
    \/ \E period \in AllPeriods : \E ok \in BOOLEAN : GetAggregatedStatsCall(period, ok)

SpecPeriods == InitProbe /\ [][NextPeriods]_vars

\* Pod credits: the cache of the credit service's answer.  The clock of this
\* scenario counts seconds.
POD_CREDITS_CACHE_TTL == 60

MaxInFlight == 2

CreditReadings == {1, 2, 60, 61, 62, 122}

\* what response.json() can produce: any JSON value, null included
CreditPayloads == {Null, [pods_credits |-> 1], [pods_credits |-> 2]}

CreditReplies ==
    {[kind |-> "ok", data |-> d] : d \in CreditPayloads}
        \cup {[kind |-> "notOk", data |-> Null], [kind |-> "throw", data |-> Null]}

exceptCredits ==
    <<probe, timerPending, runs, latestData, db, network_snapshots, node_history,
      now, orphanProbes, lastRead, proxyVars, sampleVars, alertVars, queryVars,
      pods_snapshots, cronStopped, provider>>

\* podCreditsCache && Date.now() < podCreditsExpiry
CacheValid(c) == c.cache # Null /\ now < c.expiry

\* a call that finds the cache valid returns it at once
FetchPodCreditsCached ==
    /\ CacheValid(podCredits)
    /\ podCredits' = [podCredits EXCEPT
                        !.call = [op |-> "fetchPodCredits", outbound |-> FALSE,
                                  result |-> podCredits.cache]]
    /\ UNCHANGED exceptCredits

\* a call that does not find the cache valid sends the request and awaits it
FetchPodCreditsRequest ==
    /\ ~CacheValid(podCredits)
    /\ podCredits.inFlight < MaxInFlight
    /\ podCredits' = [podCredits EXCEPT
                        !.inFlight = @ + 1,
                        !.call = [op |-> "fetchPodCredits", outbound |-> TRUE,
                                  result |-> Null]]
    /\ UNCHANGED exceptCredits

\* the rest of a call after its request settled
FetchPodCreditsSettle(reply) ==
    /\ podCredits.inFlight > 0
    /\ podCredits' =
         IF reply.kind = "ok"
         THEN [cache |-> reply.data,
               expiry |-> now + POD_CREDITS_CACHE_TTL,
               inFlight |-> podCredits.inFlight - 1,
               call |-> [op |-> "settled", outbound |-> FALSE, result |-> reply.data],
               fetched |-> [done |-> TRUE, at |-> now, data |-> reply.data]]
         ELSE [podCredits EXCEPT
                 !.inFlight = @ - 1,
                 !.call = [op |-> "settled", outbound |-> FALSE, result |-> Null]]
    /\ UNCHANGED exceptCredits

NextCredits ==
    \/ \E t \in CreditReadings : ClockAdvance(t)
    \/ FetchPodCreditsCached
    \/ FetchPodCreditsRequest
    \/ \E reply \in CreditReplies : FetchPodCreditsSettle(reply)

SpecCredits == InitProbe /\ [][NextCredits]_vars

\* Hot cache scenario: one run slot, one network, a clock that counts seconds
\* and fast-path reads of latestData.  The documented TTL of the in-memory
\* cache is one minute.
HotCacheTtl == 60

CacheReadings == {1, 2, 62, 63}

NextCache ==
    \/ Collector(FirstNetworks(1), RegistryReplies(MaxPods), ProbeReplies)
    \/ OrphanSettle
    \/ \E t \in CacheReadings : ClockAdvance(t)
    \/ \E n \in NetworkSet : getLatestData(n)

SpecCache == InitCycle /\ [][NextCache]_vars

\* Completion scenario: one cycle over the configured networks, registries
\* that fail, that list a sample of two waves, or that list one pod, without
\* its address.  Every request that was sent settles: node-fetch is given a timeout
\* on every RPC call (lines 40, 64, 70, 76) and the store's inserts are awaited
\* (lines 170-171), so each settle step is weakly fair.
CompletionPods == 6

CompletionRegistries ==
    {NetErr, OkReply(Registry(CompletionPods)), OkReply(RegistryBadPod(0))}

\* the nodes of this scenario all leave their calls to time out: the slowest
\* way for a probe to settle
CompletionProbes == {NodeDown}

NextCompletion ==
    Collector(FirstNetworks(NumNetworks), CompletionRegistries, CompletionProbes)

\* the request a run is parked at settles, whichever it is
RequestSettles ==
    \E r \in DOMAIN runs :
        \/ \E reply \in CompletionRegistries : FetchPodsSettle(r, reply)
        \/ \E j \in runs[r].inflight : \E t \in CompletionProbes : ProbeSettle(r, j, t)
        \/ \E ok \in BOOLEAN : SaveSnapshotSettle(r, ok)
        \/ \E ok \in BOOLEAN : SaveHistorySettle(r, ok)

EveryRequestSettles == WF_vars(RequestSettles)

SpecCompletion == InitCycle /\ [][NextCompletion]_vars /\ EveryRequestSettles

\* Stop scenario: the collector of one network, stopped at any moment after
\* startCollector has returned.
NextStop ==
    \/ Collector(FirstNetworks(1), RegistryReplies(MaxPods), ProbeReplies)
    \/ OrphanSettle
    \/ StopCollector

SpecStop == InitCycle /\ [][NextStop]_vars

\* NodesProvider scenario: network switches while registry fetches are in
\* flight.  Each pending call is parked at one of its awaits.
MaxPending == 2

ProviderNetworks == {AllNetworks[1], AllNetworks[2]}

RegistryOutcomes == {"error", "noPods", "pods"}

exceptProvider ==
    <<probe, timerPending, runs, latestData, db, network_snapshots, node_history,
      now, orphanProbes, lastRead, proxyVars, sampleVars, alertVars, queryVars,
      pods_snapshots, podCredits, cronStopped>>

\* fetchRegistryPods(networkId) is called (line 523): it parks at getFromDB
\* (line 532); registryPods.length of its closure is the list on display
FetchCall(networkId, shown) ==
    [fn |-> "fetchRegistryPods", networkId |-> networkId, pc |-> "getFromDB",
     hadPods |-> shown # ""]

Parked(c, at) == [c EXCEPT !.pc = at]

\* handleNetworkChange(networkId), lines 584-588: up to its await of getFromDB
HandleNetworkChange(networkId) ==
    /\ Cardinality(provider.pending) < MaxPending
    /\ provider' = [provider EXCEPT
                      !.registryStatus = "loading",
                      !.pending = @ \cup {[fn |-> "handleNetworkChange",
                                           networkId |-> networkId, pc |-> "getFromDB",
                                           hadPods |-> FALSE]}]
    /\ UNCHANGED exceptProvider

\* handleNetworkChange, lines 588-627: the cache read has settled
HandleNetworkChangeSettle(c) ==
    /\ c \in provider.pending
    /\ c.fn = "handleNetworkChange"
    /\ LET hit == c.networkId \in provider.registryCache
           next == FetchCall(c.networkId, provider.registryPods)
       IN  provider' = [provider EXCEPT
                          !.registryPods = IF hit THEN c.networkId ELSE "",
                          !.nodes = IF hit THEN c.networkId ELSE "",
                          !.registryStatus = IF hit THEN "success" ELSE "loading",
                          !.selectedNetwork = c.networkId,
                          !.pending = (@ \ {c}) \cup {next}]
    /\ UNCHANGED exceptProvider

\* fetchRegistryPods, lines 530-538: the cache read has settled
FetchCacheSettle(c) ==
    /\ c \in provider.pending
    /\ c.fn = "fetchRegistryPods" /\ c.pc = "getFromDB"
    /\ provider' =
         IF c.networkId \in provider.registryCache
         THEN [provider EXCEPT
                 !.registryPods = c.networkId,
                 !.registryStatus = "success",
                 !.pending = (@ \ {c}) \cup {Parked(c, "loadCachedNodes")}]
         ELSE [provider EXCEPT !.pending = (@ \ {c}) \cup {Parked(c, "callRpcEndpoint")}]
    /\ UNCHANGED exceptProvider

\* fetchRegistryPods, lines 538-552: the cached nodes are loaded and shown
FetchCachedNodesSettle(c) ==
    /\ c \in provider.pending
    /\ c.fn = "fetchRegistryPods" /\ c.pc = "loadCachedNodes"
    /\ provider' = [provider EXCEPT
                      !.nodes = c.networkId,
                      !.pending = (@ \ {c}) \cup {Parked(c, "callRpcEndpoint")}]
    /\ UNCHANGED exceptProvider

\* fetchRegistryPods, lines 552-579: the registry has answered
FetchRpcSettle(c, outcome) ==
    /\ c \in provider.pending
    /\ c.fn = "fetchRegistryPods" /\ c.pc = "callRpcEndpoint"
    /\ provider' =
         IF outcome = "pods"
         THEN [provider EXCEPT
                 !.registryPods = c.networkId,
                 !.registryStatus = "success",
                 !.registryCache = @ \cup {c.networkId},
                 !.pending = (@ \ {c}) \cup {Parked(c, "loadInitialNodes")}]
         ELSE IF ~c.hadPods
         THEN [provider EXCEPT
                 !.registryPods = "",
                 !.registryStatus = "error",
                 !.pending = @ \ {c}]
         ELSE [provider EXCEPT !.pending = @ \ {c}]
    /\ UNCHANGED exceptProvider

\* fetchRegistryPods, lines 579-580: the nodes of the fresh pods are shown
FetchNodesSettle(c) ==
    /\ c \in provider.pending
    /\ c.fn = "fetchRegistryPods" /\ c.pc = "loadInitialNodes"
    /\ provider' = [provider EXCEPT !.nodes = c.networkId, !.pending = @ \ {c}]
    /\ UNCHANGED exceptProvider

NextProvider ==
    \/ \E n \in ProviderNetworks : HandleNetworkChange(n)
    \/ \E c \in provider.pending : HandleNetworkChangeSettle(c)
    \/ \E c \in provider.pending : FetchCacheSettle(c)
    \/ \E c \in provider.pending : FetchCachedNodesSettle(c)
    \/ \E c \in provider.pending : \E outcome \in RegistryOutcomes : FetchRpcSettle(c, outcome)
    \/ \E c \in provider.pending : FetchNodesSettle(c)

SpecProvider == InitProbe /\ [][NextProvider]_vars

\* Proxy scenario: requests to the RPC proxy, one at a time, each forwarded
\* call followed to its end.
NextProxy ==
    \/ \E body \in RequestBodies : PostReceive(body)
    \/ RemoteRefuse
    \/ \E status \in Statuses : RemoteHeaders(status)
    \/ RemoteData
    \/ \E body \in RemoteBodies : RemoteBody(body)
    \/ RemoteAbort
    \/ Tick
    \/ TimerFire

SpecProxy == InitProbe /\ [][NextProxy]_vars

(***************************************************************************)
(* Properties                                                              *)
(***************************************************************************)
StatusesOf(nodeStats) == [j \in 1..Len(nodeStats) |-> nodeStats[j].status]

OnlineIdx(nodeStats) == {j \in 1..Len(nodeStats) : nodeStats[j].status = "online"}

OfflineIdx(nodeStats) == {j \in 1..Len(nodeStats) : nodeStats[j].status = "offline"}

\* a missing measurement counts for nothing in a sum
ValueOrZero(x) == IF x = Null THEN Num(0) ELSE x

RECURSIVE SumIdx(_, _, _)
SumIdx(nodeStats, S, f) ==
    IF S = {} THEN Num(0)
    ELSE LET j == CHOOSE k \in S : TRUE
         IN  JsAdd(ValueOrZero(nodeStats[j][f]), SumIdx(nodeStats, S \ {j}, f))

\* avg is the arithmetic mean of member f over the nodes S (0 over no node)
IsMeanOver(avg, nodeStats, S, f) ==
    /\ IsFinite(avg)
    /\ IF S = {} THEN avg = Num(0)
       ELSE JsMul(avg, Num(Cardinality(S))) = SumIdx(nodeStats, S, f)

CacheEntries == {latestData[n] : n \in NetworkSet} \ {Null}

\* C1: a node probe (collector fetchNodeStats, dashboard fetchNodeDataAndUpdate of
\* the topology page and of NodesProvider) returns status offline if and only if
\* both its get-version call and its get-stats call failed; get-pods has no say.
C1_OfflineIffBothFailed ==
    probe.out.status # "none" =>
        (probe.out.status = "offline"
            <=> (CallFailed(probe.calls["get-version"]) /\ CallFailed(probe.calls["get-stats"])))

\* The collector alone classifies by the claim's rule.
CollectorOfflineIffBothFailed ==
    (probe.impl = "collector" /\ probe.out.status # "none") =>
        (probe.out.status = "offline"
            <=> (CallFailed(probe.calls["get-version"]) /\ CallFailed(probe.calls["get-stats"])))

\* C2: in every snapshot, totalStorage and totalStreams are the sums, and avgCpu
\* and avgRam the arithmetic means, over exactly the sampled nodes classified
\* online; with no node online avgCpu and avgRam are 0, never NaN.
C2_AggregatesOverOnline ==
    \A e \in CacheEntries :
        LET on == OnlineIdx(e.nodeStats)
        IN  /\ e.stats.totalStorage = SumIdx(e.nodeStats, on, "storage")
            /\ e.stats.totalStreams = SumIdx(e.nodeStats, on, "activeStreams")
            /\ IsMeanOver(e.stats.avgCpu, e.nodeStats, on, "cpu")
            /\ IsMeanOver(e.stats.avgRam, e.nodeStats, on, "ram")
            /\ on = {} => (e.stats.avgCpu = Num(0) /\ e.stats.avgRam = Num(0))

\* a snapshot over online nodes with different cpu and an offline node
C2_Witness ==
    \E e \in CacheEntries :
        /\ Cardinality(OnlineIdx(e.nodeStats)) >= 2
        /\ OfflineIdx(e.nodeStats) # {}
        /\ \E j, k \in OnlineIdx(e.nodeStats) : e.nodeStats[j].cpu # e.nodeStats[k].cpu
        /\ e.stats.avgCpu # Num(0)

\* C3: in every snapshot onlineNodes + offlineNodes is the number of sampled
\* nodes, each counted once by its probe result; 3 pods of which two probes are
\* online and one offline give onlineNodes = 2, offlineNodes = 1 and avgCpu the
\* mean cpu of the two online nodes.
C3_CountsPartitionSample ==
    \A e \in CacheEntries :
        /\ Len(e.nodeStats) = Min(SampleCap, Len(e.pods.pods))
        /\ \A j \in 1..Len(e.nodeStats) : e.nodeStats[j].address = e.pods.pods[j].address
        /\ e.stats.onlineNodes = Num(Cardinality(OnlineIdx(e.nodeStats)))
        /\ e.stats.offlineNodes = Num(Cardinality(OfflineIdx(e.nodeStats)))
        /\ JsAdd(e.stats.onlineNodes, e.stats.offlineNodes) = Num(Len(e.nodeStats))
        /\ (Len(e.pods.pods) = 3 /\ Cardinality(OnlineIdx(e.nodeStats)) = 2) =>
              /\ e.stats.onlineNodes = Num(2)
              /\ e.stats.offlineNodes = Num(1)
              /\ JsMul(e.stats.avgCpu, Num(2)) = SumIdx(e.nodeStats, OnlineIdx(e.nodeStats), "cpu")

\* the scenario: 3 pods, cpu 10 and 25 online, the third offline, avgCpu 35/2
C3_Witness ==
    \E e \in CacheEntries :
        /\ Len(e.pods.pods) = 3
        /\ StatusesOf(e.nodeStats) = <<"online", "online", "offline">>
        /\ e.nodeStats[1].cpu = Num(10) /\ e.nodeStats[2].cpu = Num(25)
        /\ e.stats.onlineNodes = Num(2) /\ e.stats.offlineNodes = Num(1)
        /\ e.stats.avgCpu = <<35, 2>>

\* C4: when the registry fetch of a network fails (connection error, non-JSON
\* answer, answer without a result or without pods), the collection of that
\* network stores no snapshot row and no node-history row, issues no insert, and
\* leaves the cache as it was; the network's result is null.
C4_RegistryFailureFrame ==
    [][\A r \in DOMAIN runs : \A reply \in RegistryFailures :
          FetchPodsSettle(r, reply) =>
              /\ latestData' = latestData
              /\ network_snapshots' = network_snapshots
              /\ node_history' = node_history
              /\ runs'[r].pendingDocs = <<>>
              /\ NetworkOf(runs[r]) \in DOMAIN runs'[r].results
              /\ runs'[r].results[NetworkOf(runs[r])] = Null]_vars

\* a cycle started after the network's cache entry was written has failed its
\* registry fetch, and the entry is still there
C4_Witness ==
    \E r \in DOMAIN runs : \E n \in NetworkSet :
        /\ n \in DOMAIN runs[r].results
        /\ runs[r].results[n] = Null
        /\ latestData[n] # Null
        /\ runs[r].startTime > latestData[n].timestamp
        /\ latestData[n].stats.onlineNodes = Num(1)

\* C5: the aggregate of a collection is computed, cached and handed to the store
\* only when every sampled probe of that collection has settled: while a run
\* holds its aggregate or awaits an insert none of its probes is in flight and
\* every sampled node has its entry, and every cached snapshot covers its sample.
C5_SnapshotAfterAllProbes ==
    /\ \A r \in DOMAIN runs :
          (runs[r].aggregatedData # Null \/ runs[r].pendingDocs # <<>>
              \/ runs[r].pc \in {"saveNetworkSnapshot", "saveNodeHistory"}) =>
              /\ runs[r].inflight = {}
              /\ Len(runs[r].nodeStats) = Len(runs[r].sampledPods)
    /\ \A e \in CacheEntries : Len(e.nodeStats) = Len(SampledPods(e.pods.pods))

\* a snapshot of a sample of two waves is being saved
C5_Witness ==
    \E r \in DOMAIN runs :
        /\ runs[r].pc = "saveNetworkSnapshot"
        /\ Len(runs[r].nodeStats) > BatchSize
        /\ latestData[NetworkOf(runs[r])] # Null
        /\ latestData[NetworkOf(runs[r])].stats = runs[r].aggregatedData

CeilDiv(a, b) == (a + b - 1) \div b

C7_OneCollectionAtATime ==
    Cardinality({r \in DOMAIN runs : Collecting(runs[r])}) <= 1

\* the networks before position k of the configuration
Before(nets, k) == {nets[m] : m \in 1..(k - 1)}

\* C8: in a cycle every configured network is attempted exactly once, in
\* configuration order: the networks done are those before the current one, a
\* network that fails or throws gets a null result, and the cycle goes on with
\* the next network until all have a result.
C8_EveryNetworkOnceInOrder ==
    [][\A r \in DOMAIN runs :
          Collecting(runs[r]) =>
              LET run == runs[r]
                  n == NetworkOf(run)
              IN  /\ DOMAIN run.results = Before(run.nets, run.net)
                  /\ runs'[r].pc # "probing" /\ runs'[r].pc # run.pc =>
                        \/ runs'[r].net = run.net
                        \/ /\ DOMAIN runs'[r].results = Before(run.nets, run.net + 1)
                           /\ \A m \in DOMAIN run.results : runs'[r].results[m] = run.results[m]
                           /\ IF run.net < Len(run.nets)
                              THEN runs'[r].pc = "fetchPods" /\ runs'[r].net = run.net + 1
                              ELSE runs'[r].pc = "returned"
                  /\ \A reply \in RegistryFailures
                                  \cup {OkReply(RegistryBadPod(k)) : k \in 0..MaxPods} :
                        FetchPodsSettle(r, reply) =>
                            /\ n \in DOMAIN runs'[r].results
                            /\ runs'[r].results[n] = Null
                            /\ runs'[r].pc = IF run.net < Len(run.nets)
                                             THEN "fetchPods" ELSE "returned"]_vars

\* the first network threw (its orphaned probe is still in flight) and the
\* second was collected all the same
C8_Witness ==
    \E r \in DOMAIN runs :
        /\ runs[r].pc = "returned"
        /\ DOMAIN runs[r].results = {AllNetworks[1], AllNetworks[2]}
        /\ runs[r].results[AllNetworks[1]] = Null
        /\ runs[r].results[AllNetworks[2]] # Null
        /\ latestData[AllNetworks[1]] = Null
        /\ orphanProbes > 0

\* an entry of network n is whole: its nodeStats are the probes of the sample
\* of its pods, and its stats count those very nodeStats
Complete(e, n) ==
    /\ DOMAIN e = {"timestamp", "pods", "stats", "nodeStats"}
    /\ e.pods.hasPods
    /\ Len(e.nodeStats) = Len(SampledPods(e.pods.pods))
    /\ \A j \in 1..Len(e.nodeStats) :
          /\ e.nodeStats[j].address = e.pods.pods[j].address
          /\ e.nodeStats[j].network = n
          /\ e.nodeStats[j].status \in {"online", "offline"}
    /\ e.stats.totalPods = TotalPods(e.pods)
    /\ e.stats.onlineNodes = Num(Cardinality(OnlineIdx(e.nodeStats)))
    /\ e.stats.offlineNodes = Num(Cardinality(OfflineIdx(e.nodeStats)))

\* C9: whatever the interleaving of reads and collections, the cache entry of a
\* network, and so what a read returns, is null or one whole entry of one
\* collection of that network (stats.onlineNodes is the number of online entries
\* of its nodeStats); a read is possible in every state.
C9_ReadsSeeWholeEntries ==
    /\ \A n \in NetworkSet :
          /\ latestData[n] # Null => Complete(latestData[n], n)
          /\ ENABLED getLatestData(n)
    /\ lastRead # Null => \E n \in NetworkSet : Complete(lastRead, n)

\* a read made while a later collection of the network is probing returned
\* the whole entry of the earlier collection
C9_Witness ==
    \E r \in DOMAIN runs :
        /\ runs[r].pc = "probing"
        /\ lastRead # Null
        /\ lastRead = latestData[NetworkOf(runs[r])]
        /\ lastRead.stats.onlineNodes = Num(1)
        /\ Len(lastRead.nodeStats) = 1
        /\ runs[r].startTime > lastRead.timestamp

Idle == \A r \in DOMAIN runs : ~Collecting(runs[r])

AggregateFields ==
    {"totalPods", "onlineNodes", "offlineNodes", "totalStorage", "avgCpu", "avgRam",
     "totalStreams", "totalBytesTransferred", "versionDistribution"}

SameAggregate(doc, stats) == \A f \in AggregateFields : doc[f] = stats[f]

\* the rows getLatestSnapshots returns for network n
LatestStored(n) == {doc \in getLatestSnapshots(network_snapshots) : doc.network = n}

\* the row of the collection that wrote the cache entry of n was stored (the
\* entry and the row are stamped in the same synchronous stretch)
SnapshotStored(n) ==
    \E j \in 1..Len(network_snapshots) :
        /\ network_snapshots[j].network = n
        /\ network_snapshots[j].timestamp = latestData[n].timestamp

\* C10 as stated: with no collection in progress and the store connected, the
\* aggregate of every non-null cache entry is the aggregate of the most recent
\* stored snapshot of its network.
C10_CacheEqualsLatestStored ==
    (Idle /\ db) =>
        \A n \in NetworkSet :
            latestData[n] # Null =>
                \E doc \in LatestStored(n) : SameAggregate(doc, latestData[n].stats)

\* C10 amended: with no collection in progress and the store connected, for
\* every network whose cache entry comes from a collection whose snapshot insert
\* succeeded, the most recent stored snapshot of the network has the aggregate of
\* the cache entry.
C10_CacheEqualsLatestWhenStored ==
    (Idle /\ db) =>
        \A n \in NetworkSet :
            (latestData[n] # Null /\ SnapshotStored(n)) =>
                /\ LatestStored(n) # {}
                /\ \A doc \in LatestStored(n) :
                      /\ doc.timestamp = latestData[n].timestamp
                      /\ SameAggregate(doc, latestData[n].stats)

\* two collections of a network stored different aggregates; the cache holds
\* the later one
C10_Witness ==
    /\ Idle /\ db
    /\ \E n \in NetworkSet :
          /\ latestData[n] # Null
          /\ SnapshotStored(n)
          /\ latestData[n].stats.onlineNodes = Num(1)
          /\ \E j \in 1..Len(network_snapshots) :
                /\ network_snapshots[j].network = n
                /\ network_snapshots[j].timestamp < latestData[n].timestamp
                /\ network_snapshots[j].onlineNodes # latestData[n].stats.onlineNodes

\* the steps by which a pending call of the transport can still settle
CallSettles ==
    \/ RemoteRefuse
    \/ \E body \in RemoteBodies : RemoteBody(body)
    \/ \E status \in Statuses : RemoteHeaders(status)
    \/ RemoteAbort /\ request'.pc = "answered"
    \/ TimerFire

HasError(result) == result.error # NullStr

HasData(result) == result.data # NoBody

\* C11: every call of the transport settles, whatever the endpoint and whatever
\* the remote does, with a result that carries exactly one of data and error: a
\* pending call can always still settle, and a settled one has one of the two.
C11_TransportAlwaysSettles ==
    /\ (request.pc = "calling") => ENABLED CallSettles
    /\ (request.pc = "answered" /\ request.called) =>
          (HasError(request.result) # HasData(request.result))

\* C12: a response with a non-2xx status is reported by the transport as an
\* error and never as data, whatever its body and on either path.
C12_NonOkStatusIsError ==
    (request.pc = "answered" /\ request.called /\ request.remote.kind = "reply"
        /\ (request.remote.status < 200 \/ request.remote.status > 299)) =>
        (HasError(request.result) /\ ~HasData(request.result))

Deadline(endpoint) == IF endpoint = "https" THEN FetchTimeout ELSE HttpTimeout

\* C13: every call carries a deadline (5 s on the http path, 10 s on the https
\* path): no call is still pending after its deadline, at whatever stage the
\* remote stalls, and a call that reaches its deadline returns the timeout error.
C13_DeadlineEnforced ==
    /\ (request.pc = "calling") => request.elapsed <= Deadline(request.body.endpoint)
    /\ (request.pc = "answered" /\ request.called /\ request.remote = Timeout) =>
          request.result.error = "Request timeout"

\* C14: a response body that holds a challenge marker yields the
\* challenge-blocked error, which is not the invalid-JSON error, on either path.
C14_ChallengeIsDistinctError ==
    (request.pc = "answered" /\ request.called /\ request.remote.kind = "reply"
        /\ HasMarker(request.remote.body)) =>
        /\ request.result.error = "Cloudflare challenge detected"
        /\ request.result.error # "Invalid JSON response"

\* C15: the proxy answers a request whose body is not JSON or lacks endpoint or
\* method with status 400 and without an outbound call; it answers a forwarded
\* call that failed at the transport with a 2xx status and an error member, and
\* a successful call with the JSON of the node.
C15_ProxyAnswers ==
    request.pc = "answered" =>
        IF ~request.body.json \/ request.body.isNull
              \/ request.body.endpoint = NullStr \/ request.body.method = NullStr
        THEN request.response.status = 400 /\ ~request.called
        ELSE /\ request.called
             /\ request.response.status \in 200..299
             /\ IF HasError(request.result)
                THEN request.response.body.error
                ELSE request.response.body = request.remote.body

\* the registry answers successfully, with an empty or a missing pod list
EmptyRegistryReplies == {OkReply(Registry(0)), OkReply(RegistryNoPods)}

\* C16: when the registry answers successfully with an empty or missing pod
\* list, the collector probes no node, stores no snapshot, leaves the cache as
\* it was and returns null for the network; the dashboard reports the no-pods
\* error, which is not the transport error (NodesProvider: whenever it reports).
C16_EmptyRegistryIsNoPods ==
    [][\A reply \in EmptyRegistryReplies :
          /\ \A r \in DOMAIN runs :
                FetchPodsSettle(r, reply) =>
                    /\ latestData' = latestData
                    /\ network_snapshots' = network_snapshots
                    /\ node_history' = node_history
                    /\ runs'[r].pendingDocs = <<>>
                    /\ runs'[r].inflight = {}
                    /\ NetworkOf(runs[r]) \in DOMAIN runs'[r].results
                    /\ runs'[r].results[NetworkOf(runs[r])] = Null
          /\ topologyFetchRegistryPods(callRpcEndpoint(reply), LoadingView).registryError
                = "No pods found in registry"
          /\ \A skipCache \in BOOLEAN :
                providerFetchRegistryPods(callRpcEndpoint(reply), skipCache,
                                          LoadingView).registryError
                    = "No pods found in registry"
          /\ topologyFetchRegistryPods(callRpcEndpoint(NetErr), LoadingView).registryError
                # "No pods found in registry"]_vars

\* C17: the pods collectNetworkData probes are the min(20, N) pods of the
\* registry with the greatest last-seen timestamps, whatever the order in which
\* the registry listed them: no pod left out is fresher than a sampled pod.
C17_SampleIsFreshestPrefix ==
    LET sampled == {sample.sampledPods[j] : j \in 1..Len(sample.sampledPods)}
        listed == {sample.pods[j] : j \in 1..Len(sample.pods)}
    IN  /\ Len(sample.sampledPods) = Min(SampleCap, Len(sample.pods))
        /\ Cardinality(sampled) = Len(sample.sampledPods)
        /\ sampled \subseteq listed
        /\ \A p \in sampled : \A q \in listed \ sampled :
              p.last_seen_timestamp >= q.last_seen_timestamp

\* a step of checkNodeAlerts that is not a stuttering step
CheckStep == <<nodeAlertHistory, alertLog>>' # <<nodeAlertHistory, alertLog>>

\* the chats subscribed to pubkey
SubscribedChats(subs, pubkey) ==
    {subs[i].chatId : i \in {j \in 1..Len(subs) : pubkey \in subs[j].subs}}

\* the statuses the node stats give for pubkey
StatusesIn(nodeStats, pubkey) ==
    {nodeStats[i].status : i \in {j \in 1..Len(nodeStats) : nodeStats[j].pubkey = pubkey}}

\* the messages about pubkey among the messages sent
AlertsFor(sent, pubkey) == SelectSeq(sent, LAMBDA m : m.pubkey = pubkey)

\* C18: in a check, a pubkey with at least one subscriber whose status in the
\* node stats (one status, in however many entries) differs from the status
\* recorded before the check gets exactly one alert, that is one message with
\* the new status to each subscribed chat and no other message; a pubkey whose
\* status is the recorded one gets none.
C18_OneAlertPerChange ==
    [][CheckStep =>
        \A pubkey \in Pubkeys : \A st \in {"online", "offline"} :
            (/\ SubscribedChats(subscribers, pubkey) # {}
             /\ StatusesIn(alertLog'.nodeStats, pubkey) = {st})
            => LET alerts == AlertsFor(alertLog'.sent, pubkey)
                   previousStatus == MapGet(nodeAlertHistory, pubkey)
               IN  /\ (previousStatus # NullStr /\ previousStatus # st)
                        => /\ Len(alerts) = Cardinality(SubscribedChats(subscribers, pubkey))
                           /\ \A c \in SubscribedChats(subscribers, pubkey) :
                                 \E i \in 1..Len(alerts) :
                                    alerts[i] = [chatId |-> c, pubkey |-> pubkey, status |-> st]
                   /\ previousStatus = st => alerts = <<>>]_vars

\* a check has alerted both chats that pubkey 1, offline before, is online
C18_Witness ==
    /\ SubscribedChats(subscribers, 1) = ChatIds
    /\ alertLog.nodeStats = <<AlertNode(1, "online")>>
    /\ Len(alertLog.sent) = 2
    /\ \A i \in 1..2 : alertLog.sent[i].pubkey = 1 /\ alertLog.sent[i].status = "online"
    /\ nodeAlertHistory[1] = "online"

\* C19: every alert a check sends is about a pubkey (never a node without
\* one) that is both in the node stats of the immediately preceding check and
\* in the node stats of this check, with different statuses.
C19_AlertOnlyBetweenConsecutiveCycles ==
    [][CheckStep =>
        \A i \in 1..Len(alertLog'.sent) :
            LET pubkey == alertLog'.sent[i].pubkey
            IN  /\ pubkey # 0
                /\ \E before \in StatusesIn(alertLog.nodeStats, pubkey) :
                   \E after \in StatusesIn(alertLog'.nodeStats, pubkey) :
                      before # after]_vars

\* no check sends an alert about a node without a pubkey
AlertsNamePubkey == \A i \in 1..Len(alertLog.sent) : alertLog.sent[i].pubkey \in Pubkeys

\* what each store operation returns when the store is unavailable
UnavailableResult ==
    ("saveNetworkSnapshot" :> Null) @@ ("saveNodeHistory" :> Null)
    @@ ("getNetworkHistory" :> List(<<>>)) @@ ("getNodeHistory" :> List(<<>>))
    @@ ("getLatestSnapshots" :> List({})) @@ ("getAggregatedStats" :> Null)

\* C20: while the store is unavailable no store operation throws, the two saves
\* return null and no row is written, the three list queries return an empty
\* list and getAggregatedStats returns null; a collection never waits on the
\* store, and the aggregate it returns for a network is the one in the cache.
C20_StoreUnavailableIsGraceful ==
    ~db =>
        /\ lastQuery.op # "none"
              => ~lastQuery.threw /\ lastQuery.result = UnavailableResult[lastQuery.op]
        /\ network_snapshots = <<>> /\ node_history = <<>>
        /\ \A r \in DOMAIN runs :
              /\ runs[r].pc \in {"free", "fetchPods", "probing", "returned"}
              /\ runs[r].pc = "probing" => runs[r].inflight # {}
              /\ \A n \in DOMAIN runs[r].results :
                    runs[r].results[n] # Null
                       => latestData[n] # Null /\ latestData[n].stats = runs[r].results[n]

\* without a store, the cycle has returned the aggregate of its network and
\* written the cache entry, and getAggregatedStats has answered null
C20_Witness ==
    /\ ~db
    /\ lastQuery.op = "getAggregatedStats"
    /\ \E r \in DOMAIN runs :
          /\ runs[r].pc = "returned"
          /\ runs[r].results[AllNetworks[1]] # Null
          /\ runs[r].results[AllNetworks[1]].onlineNodes = Num(1)
    /\ latestData[AllNetworks[1]] # Null

(***************************************************************************)
(* What holds of the proxy and of the registry fetch                       *)
(***************************************************************************)
Settled == request.pc = "answered" /\ request.called

\* a settled call carries exactly one of data and error
SettledHasDataOrError == Settled => (HasError(request.result) # HasData(request.result))

\* a pending call whose response was not cut short can still settle
PendingCanSettle ==
    (request.pc = "calling" /\ request.stage # "aborted") => ENABLED CallSettles

\* until the response headers arrive the deadline of the path is enforced
DeadlineBeforeHeaders ==
    (request.pc = "calling" /\ request.stage = "connect")
        => request.elapsed <= Deadline(request.body.endpoint)

\* the fetch path reports a challenge page as such
ChallengeDetectedByFetch ==
    (Settled /\ request.body.endpoint = "https" /\ request.remote.kind = "reply"
        /\ HasMarker(request.remote.body))
        => request.result.error = "Cloudflare challenge detected"

\* the proxy answers as described every request whose body is not JSON null
ProxyAnswersObjects == ~request.body.isNull => C15_ProxyAnswers

\* a registry answer without a pod list leaves cache and store untouched
MissingPodListIsNoData ==
    [][\A r \in DOMAIN runs :
          FetchPodsSettle(r, OkReply(RegistryNoPods)) =>
              /\ latestData' = latestData
              /\ network_snapshots' = network_snapshots
              /\ runs'[r].results[NetworkOf(runs[r])] = Null]_vars

IsPrefix(rows, more) == Len(rows) <= Len(more) /\ SubSeq(more, 1, Len(rows)) = rows

\* the store changes only by a save that succeeded, and then by rows appended
\* after the rows it had: no save and no query changes or removes a row
AppendOnly ==
    /\ IsPrefix(network_snapshots, network_snapshots')
    /\ IsPrefix(node_history, node_history')
    /\ network_snapshots' # network_snapshots
          => lastQuery'.op = "saveNetworkSnapshot" /\ lastQuery'.result # Null
    /\ node_history' # node_history
          => lastQuery'.op = "saveNodeHistory" /\ lastQuery'.result # Null

PeriodMinutes(period) ==
    CASE period = "1h" -> 60
      [] period = "6h" -> 360
      [] period = "7d" -> 10080
      [] period = "30d" -> 43200
      [] OTHER -> 1440

\* the timestamps of the rows that lie within the period before now
StampsWithin(rows, period) ==
    {rows[j].timestamp : j \in {k \in 1..Len(rows) : rows[k].timestamp >= now - PeriodMinutes(period)}}

StampsOf(items) == {items[j].timestamp : j \in 1..Len(items)}

NetworkHistoryHonoursPeriod(period) ==
    GetNetworkHistoryCall(AllNetworks[1], period, "1m", TRUE, FALSE)
        => StampsOf(lastQuery'.result.items) = StampsWithin(network_snapshots, period)

NodeHistoryHonoursPeriod(period) ==
    GetNodeHistoryCall(1, period, TRUE)
        => StampsOf(lastQuery'.result.items) = StampsWithin(node_history, period)

AggregatedStatsHonoursPeriod(period) ==
    GetAggregatedStatsCall(period, TRUE)
        => IF StampsWithin(network_snapshots, period) = {}
           THEN lastQuery'.result = Null
           ELSE /\ lastQuery'.result # Null
                /\ lastQuery'.result.totalSnapshots
                      = Num(Cardinality(StampsWithin(network_snapshots, period)))

\* C22: each of getNetworkHistory, getNodeHistory and getAggregatedStats,
\* called with one of the periods 1h, 6h, 24h, 7d, 30d, answers from exactly
\* the stored rows whose timestamp lies within that period before now, and
\* from the rows of the last 24 hours when called with anything else.
C22_EveryQueryHonoursEveryPeriod ==
    [][\A period \in AllPeriods :
          /\ NetworkHistoryHonoursPeriod(period)
          /\ NodeHistoryHonoursPeriod(period)
          /\ AggregatedStatsHonoursPeriod(period)]_vars

\* getNetworkHistory honours the five periods
NetworkHistoryHonoursPeriods == [][\A period \in AllPeriods : NetworkHistoryHonoursPeriod(period)]_vars

\* getNodeHistory honours 1h, 6h, 24h and 7d
NodeHistoryHonoursFourPeriods ==
    [][\A period \in AllPeriods \ {"30d"} : NodeHistoryHonoursPeriod(period)]_vars

\* getAggregatedStats honours 1h, 24h and 7d
AggregatedStatsHonoursThreePeriods ==
    [][\A period \in AllPeriods \ {"6h", "30d"} : AggregatedStatsHonoursPeriod(period)]_vars

\* no row of the collection is older than the retention window
NoneOlderThanWindow(rows) == \A j \in 1..Len(rows) : rows[j].timestamp + ExpireAfter >= now

\* C23: in each of the three collections (network_snapshots, node_history,
\* pods_snapshots) an expiry pass leaves no row older than 30 days, so that no
\* later query can return one.
C23_ExpiryPurgesEveryCollection ==
    db => ENABLED (/\ ExpiryPass
                   /\ NoneOlderThanWindow(network_snapshots)'
                   /\ NoneOlderThanWindow(node_history)'
                   /\ NoneOlderThanWindow(pods_snapshots)')

\* an expiry pass leaves no row older than 30 days in the two collections the
\* queries read
ExpiryPurgesQueriedCollections ==
    db => ENABLED (/\ ExpiryPass
                   /\ NoneOlderThanWindow(network_snapshots)'
                   /\ NoneOlderThanWindow(node_history)')

\* a call to fetchPodCredits begins
CreditsCallBegins == FetchPodCreditsCached \/ FetchPodCreditsRequest

\* a call made less than the TTL after the latest successful fetch returns the
\* fetched value without a request
ServedFromCacheWhileFresh ==
    (/\ podCredits.fetched.done
     /\ now < podCredits.fetched.at + POD_CREDITS_CACHE_TTL
     /\ CreditsCallBegins)
        => /\ ~podCredits'.call.outbound
           /\ podCredits'.call.result = podCredits.fetched.data

\* the same for a fetched value that is not null
TruthyServedFromCacheWhileFresh ==
    (/\ podCredits.fetched.done
     /\ podCredits.fetched.data # Null
     /\ now < podCredits.fetched.at + POD_CREDITS_CACHE_TTL
     /\ CreditsCallBegins)
        => /\ ~podCredits'.call.outbound
           /\ podCredits'.call.result = podCredits.fetched.data

\* a call made the TTL or more after the latest successful fetch sends a request
RefetchedOnceExpired ==
    (/\ podCredits.fetched.done
     /\ now >= podCredits.fetched.at + POD_CREDITS_CACHE_TTL
     /\ CreditsCallBegins)
        => podCredits'.call.outbound

\* a fetch that fails returns null and leaves the cache and its expiry alone
FailedFetchKeepsCache ==
    (\E reply \in CreditReplies : reply.kind # "ok" /\ FetchPodCreditsSettle(reply))
        => /\ podCredits'.call.result = Null
           /\ podCredits'.cache = podCredits.cache
           /\ podCredits'.expiry = podCredits.expiry

\* C24: after a successful fetchPodCredits every call made less than 60 s
\* later returns the cached value without an outbound request, the first call
\* made 60 s or more later sends a new request, and a failed fetch returns null
\* and leaves the cached value and its expiry unchanged.
C24_CreditsCachedForTtl ==
    [][ServedFromCacheWhileFresh /\ RefetchedOnceExpired /\ FailedFetchKeepsCache]_vars

\* the part of C24 that the code keeps: the same with "every fetched value that
\* is not null" in the place of "every fetched value"
TruthyCreditsCachedForTtl ==
    [][TruthyServedFromCacheWhileFresh /\ RefetchedOnceExpired /\ FailedFetchKeepsCache]_vars

\* C25: a fast-path read (getLatestData) made more than 60 s after the entry
\* was written does not serve that entry.
C25_StaleEntryNotServed ==
    [][\A n \in NetworkSet :
          getLatestData(n)
              => (lastRead' = Null \/ lastRead'.timestamp + HotCacheTtl >= now)]_vars

\* what getLatestData does instead: it serves the entry of the network as it
\* is, whatever its age
LatestDataServedAsIs ==
    [][\A n \in NetworkSet : getLatestData(n) => lastRead' = latestData[n]]_vars

\* the collection of run r's current network has ended with null
EndedWithNull(r, n) == n \in DOMAIN runs'[r].results /\ runs'[r].results[n] = Null

\* registries that answer with a pod list, well-formed or not
PodListReplies ==
    {OkReply(Registry(k)) : k \in 0..MaxPods} \cup {OkReply(RegistryBadPod(k)) : k \in 0..MaxPods}

\* C26: whatever fields the pods of the registry carry (a missing address
\* included), the probes of a network's sample never abort the batch or the
\* network's collection: once the registry has answered with a pod list the
\* network does not end with a null result.
C26_ProbeNeverAbortsNetwork ==
    [][\A r \in DOMAIN runs : \A reply \in PodListReplies :
          (Collecting(runs[r]) /\ FetchPodsSettle(r, reply))
              => ~EndedWithNull(r, NetworkOf(runs[r]))]_vars

\* the same for registries whose pods all carry an address: their network
\* never ends with null and leaves no probe behind
AddressedPodsNeverAbort ==
    [][\A r \in DOMAIN runs : \A k \in 0..MaxPods :
          (Collecting(runs[r]) /\ FetchPodsSettle(r, OkReply(Registry(k))))
              => /\ ~EndedWithNull(r, NetworkOf(runs[r]))
                 /\ orphanProbes' = orphanProbes]_vars

\* the collector's probe has returned
CollectorProbeReturned == probe.impl = "collector" /\ probe.out.status # "none"

\* the get-stats result the returned probe worked from
ProbedStats == collectorCall(probe.calls["get-stats"])

\* ram_total is a number other than zero
HasRamTotal(statsRes) ==
    /\ ResultOf(statsRes) # Null
    /\ Field(statsRes, "ram_total") # Null
    /\ ~IsZero(Field(statsRes, "ram_total"))

\* C27: the RAM metric of a NodeStats is ram_used / ram_total * 100 when the
\* stats call succeeded with a non-zero ram_total and null when ram_total is
\* undefined or zero; it is never NaN or infinite.
C27_RamIsRatioOrOmitted ==
    CollectorProbeReturned =>
        /\ probe.out.ram =
              IF HasRamTotal(ProbedStats)
              THEN JsMul(JsDiv(Field(ProbedStats, "ram_used"), Field(ProbedStats, "ram_total")),
                         Num(100))
              ELSE Null
        /\ probe.out.ram = Null \/ IsFinite(probe.out.ram)

\* the part of C27 that the code keeps: the ratio for a non-zero ram_total, and
\* null when the stats call gave no result
RamIsRatioWhenTotalNonZero ==
    CollectorProbeReturned =>
        /\ HasRamTotal(ProbedStats) =>
              /\ probe.out.ram = JsMul(JsDiv(Field(ProbedStats, "ram_used"),
                                             Field(ProbedStats, "ram_total")), Num(100))
              /\ IsFinite(probe.out.ram)
        /\ ResultOf(ProbedStats) = Null => probe.out.ram = Null

\* the cycle of slot r has returned a result for every configured network
ReturnedEveryNetwork(r) ==
    /\ runs[r].pc = "returned"
    /\ DOMAIN runs[r].results = {runs[r].nets[k] : k \in 1..Len(runs[r].nets)}
    /\ Len(runs[r].nets) = NumNetworks

\* the wave in flight is one of the ceil(sample/5) waves of its network
WithinWaveBudget ==
    \A r \in DOMAIN runs :
        runs[r].pc = "probing" =>
            (runs[r].i \div BatchSize) + 1 <= CeilDiv(Len(runs[r].sampledPods), BatchSize)

\* C28: every started collection cycle runs to completion: provided every RPC
\* call and store write settles, collectAllNetworks eventually returns a result
\* (aggregate or null) for every configured network, and no network takes more
\* than ceil(sample/5) probe waves.
C28_CycleRunsToCompletion ==
    /\ []WithinWaveBudget
    /\ Collecting(runs[1]) ~> ReturnedEveryNetwork(1)

\* a cycle has returned after a network whose sample took two waves
C28_Witness ==
    /\ ReturnedEveryNetwork(1)
    /\ \E n \in DOMAIN runs[1].results :
          /\ runs[1].results[n] # Null
          /\ latestData[n] # Null
          /\ Len(latestData[n].nodeStats) = CompletionPods

\* a collection cycle starts in this step
CycleStarts == \E r \in DOMAIN runs : runs[r].pc = "free" /\ runs'[r].pc # "free"

\* C29: once stopCollector(job) has returned no new collection cycle is
\* started, the first 5 s after startCollector included; a cycle in progress
\* may still complete.
C29_NoCycleAfterStop == [][cronStopped => ~CycleStarts]_vars

\* what stopCollector does achieve: once it has returned, no cron tick starts
\* a cycle; the only cycle that can still start is the initial delayed run
OnlyInitialRunAfterStop ==
    [][(cronStopped /\ CycleStarts) => (timerPending /\ ~timerPending')]_vars

\* C30: in NodesProvider, once every outstanding registry fetch has settled,
\* the registry pods and the node list on display belong to the selected
\* network, whatever the interleaving of network switches with fetches in
\* flight.
C30_SettledViewIsSelectedNetwork ==
    provider.pending = {} =>
        /\ provider.registryPods \in {"", provider.selectedNetwork}
        /\ provider.nodes \in {"", provider.selectedNetwork}

\* the network on display is one that a call has asked for, and the selection
\* changes only when handleNetworkChange resumes from its cache read
SelectionFollowsHandler ==
    [][provider'.selectedNetwork # provider.selectedNetwork
          => \E c \in provider.pending :
                c.fn = "handleNetworkChange" /\ provider'.selectedNetwork = c.networkId]_vars

====
